---------------------------- MODULE Spec2Model ----------------------------
(***************************************************************************)
(* LAMOST Spectrum Analyzer: the numerical pipeline (validity mask,        *)
(* rebinning, adaptive smoothing, line enhancement, continuum estimate)    *)
(* and the three callers that drive it (src/main.py main,                  *)
(* src/src/main.py analyze_file, gui.py MainWindow.analyze).               *)
(*                                                                         *)
(* Floating-point values are modelled exactly: a value is a rational       *)
(* n/d in lowest terms, or NaN, or +/-infinity, with the IEEE rules for    *)
(* the special values.  Rounding error is not modelled.                    *)
(***************************************************************************)
EXTENDS Integers, Sequences, FiniteSets, TLC

VARIABLES
    pc,              \* position of the running handler / harness
    caller,          \* "cli_main" | "analyze_file" | "gui" | "none"
    source_type,     \* "LAMOST" | "UNIVERSAL"
    params,          \* the parameter dictionary in force (DEFAULT_PARAMS / current_params)
    wl, flux, ivar,  \* the spectrum arrays as loaded, then as masked
    m,               \* the validity mask
    wl_r, flux_r, ivar_r,   \* the rebinned arrays
    sg,              \* what try_savgol did: path taken, window after the shrink step,
                     \* window handed to the filter, moving-average kernel
    flux_smooth,     \* try_savgol's result
    flux_enhanced,   \* enhance_line_detection's result
    cont,            \* the continuum, before and after the substitution step
    flux_plot,       \* the array handed to generate_spectral_report
    report,          \* the report (self.report in the GUI)
    disk,            \* the set of files written
    calls,           \* the pipeline functions invoked so far, in order
    fnarg,           \* scalar arguments of the function under test
    ret,             \* value returned by the function under test
    history, history_index,   \* FileExplorerWidget: the navigation history
    current_path,    \* FileExplorerWidget: the directory the tree view shows
    btn_back, btn_forward,    \* FileExplorerWidget: enabled state of the buttons
    file_path,       \* MainWindow.file_path
    btn_save,        \* MainWindow: enabled state of the save button
    saved,           \* what save_results wrote last
    runs             \* the runs of MainWindow.analyze so far, in order

\* the state of the widgets
widget_vars == <<history, history_index, current_path, btn_back, btn_forward,
                 file_path, btn_save, saved, runs>>

vars == <<pc, caller, source_type, params, wl, flux, ivar, m, wl_r, flux_r,
          ivar_r, sg, flux_smooth, flux_enhanced, cont, flux_plot, report,
          disk, calls, fnarg, ret, widget_vars>>

-----------------------------------------------------------------------------
(* Bounds of the model *)

MaxLen == 4          \* longest array handed to rebin_spectrum
MaxFactor == 3       \* largest rebin factor tried
MaxMaskLen == 2      \* longest array handed to valid_mask
MaxSmoothLen == 6    \* longest array handed to try_savgol
MaxPoly == 3         \* largest polynomial order tried
MaxEnhLen == 3       \* longest array handed to enhance_line_detection
MaxEnh == 3          \* largest (integer) enhancement exponent tried
MaxContLen == 3      \* longest short array handed to running_percentile
LongLen == 52        \* length of the long arrays handed to running_percentile
MaxSamples == 4      \* longest spectrum a file holds in the pipeline
MaxLineLen == 11     \* longest spectrum handed to measure_line_parameters
MaxDipHalf == 2      \* most samples a dip extends to each side of its minimum
MaxRedshifts == 4    \* most per-line redshifts handed to robust_redshift_calculation
MaxSnrLen == 6       \* longest flux array handed to calculate_snr
MaxPeakLen == 5      \* longest flux array handed to find_emission_lines
MaxReportLen == 4    \* longest spectrum handed to generate_spectral_report directly

-----------------------------------------------------------------------------
(* config.py *)

\* DEFAULT_PARAMS
REBIN_FACTOR == 4
SG_WINDOW == 61
SG_POLY == 2
MOVING_AVG_WINDOW == 35
SNR_WINDOW == 150
CONTINUUM_WINDOW == 701
CONTINUUM_PERCENTILE == 90

REDSHIFT_SIGMA_CLIP == [k |-> "num", n |-> 2, d |-> 1]
DEFAULT_PARAMS ==
    [REBIN_FACTOR |-> REBIN_FACTOR, SG_WINDOW |-> SG_WINDOW, SG_POLY |-> SG_POLY,
     MOVING_AVG_WINDOW |-> MOVING_AVG_WINDOW, DO_CONTINUUM_NORM |-> TRUE,
     SNR_WINDOW |-> SNR_WINDOW, CONTINUUM_WINDOW |-> CONTINUUM_WINDOW,
     CONTINUUM_PERCENTILE |-> CONTINUUM_PERCENTILE,
     REDSHIFT_SIGMA_CLIP |-> REDSHIFT_SIGMA_CLIP]

-----------------------------------------------------------------------------
(* Floating-point values *)

Abs(x) == IF x < 0 THEN -x ELSE x

RECURSIVE GCD(_, _)
GCD(a, b) == IF b = 0 THEN a ELSE GCD(b, a % b)

\* the rational n/d (d # 0) in lowest terms with a positive denominator
Rat(n, d) ==
    LET g == GCD(Abs(n), Abs(d))
        s == IF d < 0 THEN -1 ELSE 1
    IN  [k |-> "num", n |-> (s * n) \div g, d |-> (s * d) \div g]

Num(n) == [k |-> "num", n |-> n, d |-> 1]
NaN == [k |-> "nan", n |-> 0, d |-> 1]
PInf == [k |-> "inf", n |-> 1, d |-> 1]
NInf == [k |-> "inf", n |-> -1, d |-> 1]

Sign(n) == IF n > 0 THEN 1 ELSE IF n < 0 THEN -1 ELSE 0
Inf(s) == IF s < 0 THEN NInf ELSE PInf

isnan(x) == x.k = "nan"
isfinite(x) == x.k = "num"

FAdd(a, b) ==
    IF isnan(a) \/ isnan(b) THEN NaN
    ELSE IF a.k = "inf" /\ b.k = "inf" THEN (IF a.n = b.n THEN a ELSE NaN)
    ELSE IF a.k = "inf" THEN a
    ELSE IF b.k = "inf" THEN b
    ELSE IF a.d = b.d THEN Rat(a.n + b.n, a.d)
    ELSE LET g == GCD(a.d, b.d)
         IN  Rat(a.n * (b.d \div g) + b.n * (a.d \div g), (a.d \div g) * b.d)

FNeg(a) == IF a.k = "nan" THEN NaN ELSE [a EXCEPT !.n = -a.n]

FSub(a, b) == FAdd(a, FNeg(b))

FMul(a, b) ==
    IF isnan(a) \/ isnan(b) THEN NaN
    ELSE IF a.k = "inf" \/ b.k = "inf"
         THEN (IF a.n = 0 \/ b.n = 0 THEN NaN ELSE Inf(Sign(a.n) * Sign(b.n)))
    ELSE IF a.d = 1 /\ b.d = 1 THEN Num(a.n * b.n)
    ELSE LET g1 == GCD(Abs(a.n), b.d)
             g2 == GCD(Abs(b.n), a.d)
         IN  [k |-> "num", n |-> (a.n \div g1) * (b.n \div g2),
              d |-> (a.d \div g2) * (b.d \div g1)]

\* IEEE division: x/0 is +/-inf, 0/0 and inf/inf are NaN (numpy warns, never raises)
FDiv(a, b) ==
    IF isnan(a) \/ isnan(b) THEN NaN
    ELSE IF a.k = "inf" /\ b.k = "inf" THEN NaN
    ELSE IF a.k = "inf" THEN Inf(a.n * (IF b.n < 0 THEN -1 ELSE 1))
    ELSE IF b.k = "inf" THEN Num(0)
    ELSE IF b.n = 0 THEN (IF a.n = 0 THEN NaN ELSE Inf(Sign(a.n)))
    ELSE FMul(a, Rat(b.d, b.n))

\* comparisons: every comparison with NaN is false
FLt(a, b) ==
    IF isnan(a) \/ isnan(b) THEN FALSE
    ELSE IF a.k = "inf" THEN a.n < 0 /\ ~(b.k = "inf" /\ b.n < 0)
    ELSE IF b.k = "inf" THEN b.n > 0
    ELSE IF a.d = b.d THEN a.n < b.n
    ELSE LET g == GCD(a.d, b.d)
         IN  a.n * (b.d \div g) < b.n * (a.d \div g)

FLe(a, b) == ~isnan(a) /\ ~isnan(b) /\ (a = b \/ FLt(a, b))
FGt(a, b) == FLt(b, a)

\* abs(); np.sqrt of a rational that is not negative, kept as the root of its
\* argument unless the argument is zero: k = "sqrt" stands for the number
\* sign(n) * sqrt(|n| / d)
FAbs(a) == IF a.k = "nan" THEN NaN ELSE [a EXCEPT !.n = Abs(a.n)]
Sqrt(v) ==
    IF ~isfinite(v) THEN v
    ELSE IF v.n = 0 THEN Num(0)
    ELSE [k |-> "sqrt", n |-> v.n, d |-> v.d]

\* index sets and elementwise helpers
Idx(s) == 1 .. Len(s)
Take(s, n) == SubSeq(s, 1, n)
\* the array s with every element evaluated
np_array(s) == Take(s, Len(s))
RECURSIVE SelectRange(_, _, _, _)
SelectRange(s, mask, lo, hi) ==
    IF lo > hi THEN <<>>
    ELSE IF lo = hi THEN (IF mask[lo] THEN <<s[lo]>> ELSE <<>>)
    ELSE SelectRange(s, mask, lo, (lo + hi) \div 2)
             \o SelectRange(s, mask, (lo + hi) \div 2 + 1, hi)
Select(s, mask) == SelectRange(s, mask, 1, Len(s))

RECURSIVE FSumRange(_, _, _)
FSumRange(s, lo, hi) ==
    IF lo > hi THEN Num(0)
    ELSE IF lo = hi THEN s[lo]
    ELSE FAdd(FSumRange(s, lo, (lo + hi) \div 2), FSumRange(s, (lo + hi) \div 2 + 1, hi))
FSum(s) == FSumRange(s, 1, Len(s))

\* np.mean: the mean of an empty array is NaN (a warning, no exception)
np_mean(s) == IF Len(s) = 0 THEN NaN ELSE FDiv(FSum(s), Num(Len(s)))

-----------------------------------------------------------------------------
(* fits_processor.py *)

\* a variant that accepts ivar == 0
valid_mask_nonneg(f, iv) ==
    [i \in Idx(f) |-> isfinite(f[i]) /\ isfinite(iv[i]) /\ FLe(Num(0), iv[i])]

\* valid_mask: np.isfinite(flux) & np.isfinite(ivar) & (ivar > 0)
valid_mask(f, iv) ==
    [i \in Idx(f) |-> isfinite(f[i]) /\ isfinite(iv[i]) /\ FGt(iv[i], Num(0))]

\* a[:rows*cols].reshape(rows, cols): raises ValueError unless the sizes agree
reshape(a, rows, cols) ==
    [raised |-> Len(a) # rows * cols,
     rows   |-> IF Len(a) # rows * cols THEN <<>>
                ELSE [r \in 1 .. rows |-> SubSeq(a, (r - 1) * cols + 1, r * cols)]]

\* a[:n*factor].reshape(n, factor).mean(axis=1)
block_mean(a, n, factor) ==
    LET sh == reshape(Take(a, n * factor), n, factor)
    IN  [raised |-> sh.raised,
         val    |-> [r \in Idx(sh.rows) |-> np_mean(sh.rows[r])]]

\* a variant that averages ivar directly instead of through the variance
rebin_mean_ivar(w, f, iv, factor) ==
    IF factor <= 1 THEN [raised |-> FALSE, wl_r |-> w, flux_r |-> f, ivar_r |-> iv]
    ELSE LET n == Len(w) \div factor
         IN  [raised |-> FALSE,
              wl_r   |-> block_mean(w, n, factor).val,
              flux_r |-> block_mean(f, n, factor).val,
              ivar_r |-> block_mean(iv, n, factor).val]

\* a variant that keeps the trailing remainder as a block of its own
rebin_keep_tail(w, f, iv, factor) ==
    IF factor <= 1 THEN [raised |-> FALSE, wl_r |-> w, flux_r |-> f, ivar_r |-> iv]
    ELSE LET n   == Len(w) \div factor
             rem == Len(w) % factor
             tail(a) == IF rem = 0 THEN <<>>
                        ELSE <<np_mean(SubSeq(a, n * factor + 1, Len(a)))>>
         IN  [raised |-> FALSE,
              wl_r   |-> block_mean(w, n, factor).val \o tail(w),
              flux_r |-> block_mean(f, n, factor).val \o tail(f),
              ivar_r |-> block_mean(iv, n, factor).val \o tail(iv)]

rebin_spectrum(w, f, iv, factor) ==
    IF factor <= 1 THEN [raised |-> FALSE, wl_r |-> w, flux_r |-> f, ivar_r |-> iv]
    ELSE LET n     == Len(w) \div factor
             var   == [i \in Idx(iv) |-> FDiv(Num(1), iv[i])]
             wl_b  == block_mean(w, n, factor)
             var_b == block_mean(var, n, factor)
             fl_b  == block_mean(f, n, factor)
         IN  [raised |-> wl_b.raised \/ var_b.raised \/ fl_b.raised,
              wl_r   |-> wl_b.val,
              flux_r |-> fl_b.val,
              ivar_r |-> [j \in Idx(var_b.val) |-> FDiv(Num(1), var_b.val[j])]]

-----------------------------------------------------------------------------
(* numpy reductions used by utils.py *)

Max(a, b) == IF a >= b THEN a ELSE b
Min(a, b) == IF a <= b THEN a ELSE b
Range(s) == {s[i] : i \in Idx(s)}
Full(n, v) == [i \in 1 .. n |-> v]
anynan(s) == \E i \in Idx(s) : isnan(s[i])
dropnan(s) == Select(s, [i \in Idx(s) |-> ~isnan(s[i])])

\* the place of s[i] in the sorted array: after the smaller elements and
\* after the equal ones before it
sort_rank(s, i) ==
    1 + Cardinality({j \in Idx(s) : FLt(s[j], s[i]) \/ (s[j] = s[i] /\ j < i)})
\* the elements of s in the order of their places
sorted_by(s, ranks) == np_array([p \in Idx(s) |-> s[CHOOSE i \in Idx(s) : ranks[i] = p]])
sort_array(s) == sorted_by(s, np_array([i \in Idx(s) |-> sort_rank(s, i)]))

\* np.sort of an array without NaN
np_sort(s) == sort_array(np_array(s))

\* np.min / np.max: NaN as soon as one element is NaN.  The callers test for
\* the empty array (ValueError) before using them.
np_min(s) ==
    IF anynan(s) THEN NaN
    ELSE CHOOSE v \in Range(s) : \A i \in Idx(s) : FLe(v, s[i])
np_max(s) ==
    IF anynan(s) THEN NaN
    ELSE CHOOSE v \in Range(s) : \A i \in Idx(s) : FLe(s[i], v)

\* the median of a sorted array without NaN
mid(t) ==
    LET n == Len(t)
    IN  IF n % 2 = 1 THEN t[(n + 1) \div 2]
        ELSE FDiv(FAdd(t[n \div 2], t[n \div 2 + 1]), Num(2))

\* np.median: NaN for an empty array (a warning) and when any element is NaN
np_median(s) ==
    IF Len(s) = 0 \/ anynan(s) THEN NaN ELSE mid(np_sort(s))

\* np.nanmedian: the median of the elements that are not NaN; NaN if none
np_nanmedian(s) ==
    LET t == dropnan(s)
    IN  IF Len(t) = 0 THEN NaN ELSE mid(np_sort(t))

\* np.nanpercentile (linear interpolation) over the elements that are not NaN
np_nanpercentile(s, q) ==
    LET t == dropnan(s)
        n == Len(t)
        u == np_sort(t)
        lo == (q * (n - 1)) \div 100
        fr == Rat((q * (n - 1)) % 100, 100)
    IN  IF n = 0 THEN NaN
        ELSE IF fr.n = 0 THEN u[lo + 1]
        ELSE FAdd(u[lo + 1], FMul(fr, FSub(u[lo + 2], u[lo + 1])))

\* np.pad(y, (k, k), mode='constant', constant_values=c)
pad_constant(y, k, c) == Full(k, c) \o y \o Full(k, c)
\* np.pad(y, (k, k), mode='edge'); the caller uses it on non-empty arrays only
pad_edge(y, k) == Full(k, y[1]) \o y \o Full(k, y[Len(y)])

\* np.convolve(a, v, mode="valid"): the shorter array slides over the longer
np_convolve_valid(a, v) ==
    LET big == IF Len(a) >= Len(v) THEN a ELSE v
        sml == IF Len(a) >= Len(v) THEN v ELSE a
    IN  [j \in 1 .. (Len(big) - Len(sml) + 1) |->
            FSum([i \in Idx(sml) |-> FMul(big[j + i - 1], sml[Len(sml) - i + 1])])]

-----------------------------------------------------------------------------
(* scipy.signal.savgol_filter(y, window_length, polyorder, mode="interp") *)

\* discrete orthogonal (Gram) polynomial of degree k on the points 0..N-1
RECURSIVE GramT(_, _, _)
GramT(k, x, N) ==
    IF k = 0 THEN Num(1)
    ELSE IF k = 1 THEN FAdd(FMul(Num(2), x), Num(1 - N))
    ELSE FDiv(FSub(FMul(FMul(Num(2 * k - 1), GramT(1, x, N)), GramT(k - 1, x, N)),
                   FMul(Num((k - 1) * (N * N - (k - 1) * (k - 1))), GramT(k - 2, x, N))),
              Num(k))

\* the windows and orders savgol_filter can be handed, and the positions
\* (doubled, so that the centre of an even window is an integer) at which a
\* window's polynomial is evaluated
SgMaxWindow == Max(MaxSmoothLen, MaxSamples)
SgMaxPoly == Max(MaxPoly, SG_POLY)
\* the windows tabulated: every short one, and the configured ones (the
\* default and the smallest the GUI offers) with the default order only
SgLongWindows == {31, SG_WINDOW}
SgTabWindows == (1 .. SgMaxWindow) \cup SgLongWindows
SgTabPoly(N) == IF N <= SgMaxWindow THEN SgMaxPoly ELSE SG_POLY
SgPositions(N) == {2 * j : j \in 0 .. N - 1} \cup {N - 1}

\* the polynomials and their squared norms on the samples 0 .. N-1
GramTab ==
    [N \in SgTabWindows |-> [k \in 0 .. SgTabPoly(N) |->
        [x2 \in SgPositions(N) |-> GramT(k, Rat(x2, 2), N)]]]
GramNorm ==
    [N \in SgTabWindows |-> [k \in 0 .. SgTabPoly(N) |->
        FSum([x1 \in 1 .. N |->
                FMul(GramTab[N][k][2 * (x1 - 1)], GramTab[N][k][2 * (x1 - 1)])])]]

\* weight of window sample i (0-based) in the least-squares polynomial of
\* degree poly through N samples, evaluated at position t2/2
sg_weight(i, t2, N, poly) ==
    FSum([k1 \in 1 .. (poly + 1) |->
            FDiv(FMul(GramTab[N][k1 - 1][2 * i], GramTab[N][k1 - 1][t2]),
                 GramNorm[N][k1 - 1])])
SgWeights ==
    [N \in SgTabWindows |-> [poly \in 0 .. SgTabPoly(N) |->
        [t2 \in SgPositions(N) |-> [i \in 0 .. N - 1 |-> sg_weight(i, t2, N, poly)]]]]

\* the fitted polynomial of the window y[first .. first+N-1] at position t2/2
sg_fit(y, first, N, poly, t2) ==
    FSum([i1 \in 1 .. N |-> FMul(SgWeights[N][poly][t2][i1 - 1], y[first + i1 - 1])])

\* savgol_filter raises ValueError when the window exceeds the data or the
\* order is not below the window; releases before 1.11 also reject an even
\* window; polyfit on the edges may fail on non-finite data (LAPACK-dependent)
savgol_rejects(y, w, poly, even_ok, nan_raises) ==
    \/ w > Len(y)
    \/ poly >= w
    \/ poly < 0
    \/ (w % 2 = 0 /\ ~even_ok)
    \/ (nan_raises /\ \E i \in Idx(y) : ~isfinite(y[i]))

\* the filtered array: edges from the fit of the first / last window, the
\* interior from the fit of the window around each sample
savgol_filter(y, w, poly) ==
    LET n == Len(y)
        h == w \div 2
    IN  [j \in 1 .. n |->
            IF j <= h THEN sg_fit(y, 1, w, poly, 2 * (j - 1))
            ELSE IF j > n - h THEN sg_fit(y, n - w + 1, w, poly, 2 * (j - 1 - (n - w)))
            ELSE IF w % 2 = 1 THEN sg_fit(y, j - h, w, poly, w - 1)
            ELSE sg_fit(y, j - h + 1, w, poly, w - 1)]

-----------------------------------------------------------------------------
(* utils.py *)

\* int(window) | 1
or1(w) == IF w % 2 = 0 THEN w + 1 ELSE w

\* len(y) - 1 if len(y) % 2 == 0 else len(y), then max(3, .)
shrink(n) == Max(3, IF n % 2 = 0 THEN n - 1 ELSE n)

\* a variant without the shrink step
sg_not_shrunk(n, window) == Max(3, or1(window))

\* the window after the shrink step (lines 11-16)
sg_shrunk(n, window) ==
    LET w1 == Max(3, or1(window))
    IN  IF w1 > n THEN shrink(n) ELSE w1

\* a variant without the step that raises the window above the order
sg_window_not_raised(n, window, poly) == sg_shrunk(n, window)

\* the window try_savgol hands to savgol_filter (lines 11-19)
sg_window(n, window, poly) ==
    LET w2 == sg_shrunk(n, window)
    IN  IF w2 < poly + 2 THEN poly + 3 ELSE w2

\* the width of the moving-average kernel (lines 26-33)
ma_window(n, moving_avg_window) ==
    LET w0 == Max(3, moving_avg_window)
        w1 == IF w0 % 2 = 0 THEN w0 + 1 ELSE w0
    IN  IF w1 > n THEN shrink(n) ELSE w1

\* a variant that pads by the full kernel width
moving_average_widepad(y, w) ==
    np_convolve_valid(pad_constant(y, w, np_median(y)), Full(w, Rat(1, w)))

\* the except branch after the kernel width is known (lines 35-43)
moving_average(y, w) ==
    LET k == Full(w, Rat(1, w))
        y_pad == IF Len(y) < w THEN pad_constant(y, w \div 2, np_median(y))
                 ELSE pad_edge(y, w \div 2)
    IN  np_convolve_valid(y_pad, k)

\* a variant whose except branch re-raises
try_savgol_reraise(y, window, poly, moving_avg_window, even_ok, nan_raises) ==
    LET w == sg_window(Len(y), window, poly)
    IN  IF savgol_rejects(y, w, poly, even_ok, nan_raises)
        THEN [path |-> "moving_avg", window |-> w, kernel |-> 0, raised |-> TRUE,
              shrunk |-> sg_shrunk(Len(y), window), out |-> <<>>]
        ELSE [path |-> "savgol", window |-> w, kernel |-> 0, raised |-> FALSE,
              shrunk |-> sg_shrunk(Len(y), window), out |-> savgol_filter(y, w, poly)]

\* try_savgol: shrunk is the window after the shrink step, window the window
\* handed to savgol_filter, kernel the width of the moving-average kernel when
\* the except branch ran
try_savgol(y, window, poly, moving_avg_window, even_ok, nan_raises) ==
    LET w == sg_window(Len(y), window, poly)
    IN  IF savgol_rejects(y, w, poly, even_ok, nan_raises)
        THEN [path |-> "moving_avg", window |-> w,
              kernel |-> ma_window(Len(y), moving_avg_window),
              raised |-> FALSE, shrunk |-> sg_shrunk(Len(y), window),
              out |-> moving_average(y, ma_window(Len(y), moving_avg_window))]
        ELSE [path |-> "savgol", window |-> w, kernel |-> 0, raised |-> FALSE,
              shrunk |-> sg_shrunk(Len(y), window), out |-> savgol_filter(y, w, poly)]

\* the sliding branch of running_percentile (lines 50-56)
sliding_percentile(y, win, q) ==
    [i \in Idx(y) |->
        np_nanpercentile(SubSeq(y, Max(1, i - win \div 2), Min(Len(y), i + win \div 2)), q)]

\* a variant that collapses to the requested percentile
running_percentile_q(y, win, q) ==
    IF Max(51, or1(win)) >= Len(y) THEN Full(Len(y), np_nanpercentile(y, q))
    ELSE sliding_percentile(y, Max(51, or1(win)), q)

running_percentile(y, win, q) ==
    IF Max(51, or1(win)) >= Len(y) THEN Full(Len(y), np_nanmedian(y))
    ELSE sliding_percentile(y, Max(51, or1(win)), q)

\* np.power(x, e) for a positive integer exponent e
RECURSIVE np_power(_, _)
np_power(x, e) == IF e <= 1 THEN x ELSE FMul(x, np_power(x, e - 1))

\* lines 61-67 with lo = np.min(flux) and span = np.max(flux) - np.min(flux)
enhanced_between(f, lo, span, enhancement_factor) ==
    LET norm_flux == [i \in Idx(f) |-> FDiv(FSub(f[i], lo), span)]
        enhanced_flux == [i \in Idx(f) |-> np_power(norm_flux[i], enhancement_factor)]
    IN  [i \in Idx(f) |-> FAdd(FMul(enhanced_flux[i], span), lo)]

\* enhance_line_detection; np.min raises ValueError on an empty array
enhance_line_detection(f, enhancement_factor) ==
    IF Len(f) = 0 THEN [raised |-> TRUE, out |-> <<>>]
    ELSE [raised |-> FALSE,
          out |-> enhanced_between(f, np_min(f), FSub(np_max(f), np_min(f)),
                                   enhancement_factor)]

\* cont = np.where(cont <= 0, np.nanmedian(cont[cont>0]), cont)
substitute_continuum(c) ==
    LET positive == Select(c, [i \in Idx(c) |-> FGt(c[i], Num(0))])
        fill == np_nanmedian(positive)
    IN  [i \in Idx(c) |-> IF FLe(c[i], Num(0)) THEN fill ELSE c[i]]

-----------------------------------------------------------------------------
(* States shared by the specifications *)

None == [none |-> TRUE]
NoSg == [path |-> "none", shrunk |-> 0, window |-> 0, kernel |-> 0]
NoArg == [factor |-> 0, window |-> 0, poly |-> 0, moving_avg_window |-> 0,
          enhancement_factor |-> 0, win |-> 0, q |-> 0]

\* wavelength grid of the test spectra: strictly increasing
WlStart == 4000
WlStep == 2
WlGrid(L) == [i \in 1 .. L |-> Num(WlStart + WlStep * i)]

\* all arrays of length 0..maxlen over the value set S
Arrays(S, maxlen) == UNION {[1 .. L -> S] : L \in 0 .. maxlen}

\* self.file_path = None (gui.py:1294); the handlers test "not self.file_path"
NoFile == ""

\* no window is open
NoWindow ==
    /\ history = <<>> /\ history_index = -1 /\ current_path = "none"
    /\ btn_back = FALSE /\ btn_forward = FALSE
    /\ file_path = NoFile /\ btn_save = FALSE /\ saved = None /\ runs = <<>>

NoCaller ==
    /\ caller = "none" /\ source_type = "LAMOST" /\ params = DEFAULT_PARAMS
    /\ report = None /\ disk = {} /\ calls = <<>> /\ ret = None
    /\ NoWindow

-----------------------------------------------------------------------------
(* valid_mask applied to arbitrary floating-point arrays *)

FluxAny == {Num(1), Num(0), Num(-2), NaN, PInf, NInf}
IvarAny == {Num(1), Num(0), Num(-1), NaN, PInf, NInf}

InitMask ==
    /\ pc = "input"
    /\ \E L \in 0 .. MaxMaskLen :
         /\ flux \in [1 .. L -> FluxAny]
         /\ ivar \in [1 .. L -> IvarAny]
         /\ wl = WlGrid(L)
    /\ m = <<>> /\ wl_r = <<>> /\ flux_r = <<>> /\ ivar_r = <<>>
    /\ sg = NoSg /\ flux_smooth = <<>> /\ flux_enhanced = <<>> /\ cont = <<>>
    /\ flux_plot = <<>> /\ fnarg = NoArg
    /\ NoCaller

\* m = valid_mask(flux, ivar)
CallValidMask ==
    /\ pc = "input"
    /\ m' = valid_mask(flux, ivar)
    /\ pc' = "masked"
    /\ UNCHANGED <<widget_vars, caller, source_type, params, wl, flux, ivar, wl_r, flux_r,
                   ivar_r, sg, flux_smooth, flux_enhanced, cont, flux_plot,
                   report, disk, calls, fnarg, ret>>

\* wl, flux, ivar = wl[m], flux[m], ivar[m]   (the callers' next line)
ApplyMask ==
    /\ pc = "masked"
    /\ wl' = Select(wl, m)
    /\ flux' = Select(flux, m)
    /\ ivar' = Select(ivar, m)
    /\ pc' = "applied"
    /\ UNCHANGED <<widget_vars, caller, source_type, params, m, wl_r, flux_r, ivar_r, sg,
                   flux_smooth, flux_enhanced, cont, flux_plot, report, disk,
                   calls, fnarg, ret>>

NextMask == CallValidMask \/ ApplyMask

SpecMask == InitMask /\ [][NextMask]_vars

-----------------------------------------------------------------------------
(* rebin_spectrum applied to arbitrary spectra *)

FluxVals == {Num(1), Num(2)}
IvarVals == {Num(0), Num(1), Num(3)}

InitRebin ==
    /\ pc = "input"
    /\ \E L \in 0 .. MaxLen :
         /\ flux \in [1 .. L -> FluxVals]
         /\ ivar \in [1 .. L -> IvarVals]
         /\ wl = WlGrid(L)
    /\ \E f \in 0 .. MaxFactor : fnarg = [NoArg EXCEPT !.factor = f]
    /\ m = <<>> /\ wl_r = <<>> /\ flux_r = <<>> /\ ivar_r = <<>>
    /\ sg = NoSg /\ flux_smooth = <<>> /\ flux_enhanced = <<>> /\ cont = <<>>
    /\ flux_plot = <<>>
    /\ NoCaller

\* wl_r, flux_r, ivar_r = rebin_spectrum(wl, flux, ivar, factor)
CallRebin ==
    /\ pc = "input"
    /\ LET r == rebin_spectrum(wl, flux, ivar, fnarg.factor)
       IN  /\ pc' = IF r.raised THEN "raised" ELSE "rebinned"
           /\ wl_r' = r.wl_r
           /\ flux_r' = r.flux_r
           /\ ivar_r' = r.ivar_r
    /\ UNCHANGED <<widget_vars, caller, source_type, params, wl, flux, ivar, m, sg,
                   flux_smooth, flux_enhanced, cont, flux_plot, report, disk,
                   calls, fnarg, ret>>

NextRebin == CallRebin

SpecRebin == InitRebin /\ [][NextRebin]_vars

-----------------------------------------------------------------------------
(* Claims about fits_processor.py *)

Block(a, j, factor) == SubSeq(a, (j - 1) * factor + 1, j * factor)
AllPositive(a) == \A i \in Idx(a) : a[i].k = "num" /\ a[i].n > 0
Rebinned == pc \in {"rebinned", "raised"} /\ fnarg.factor >= 2

\* C1: for every spectrum of length L and every integer factor >= 2,
\* rebin_spectrum returns (without raising) three arrays of length
\* floor(L/factor); each output sample is the mean of its own block of the
\* first floor(L/factor)*factor samples, so the trailing remainder is dropped
\* and L < factor yields three empty arrays.
C1_RebinLength ==
    Rebinned =>
        LET n == Len(wl) \div fnarg.factor
        IN  /\ pc = "rebinned"
            /\ Len(wl_r) = n /\ Len(flux_r) = n /\ Len(ivar_r) = n
            /\ (Len(wl) < fnarg.factor =>
                    wl_r = <<>> /\ flux_r = <<>> /\ ivar_r = <<>>)
            /\ \A j \in 1 .. n :
                 /\ FMul(wl_r[j], Num(fnarg.factor)) = FSum(Block(wl, j, fnarg.factor))
                 /\ FMul(flux_r[j], Num(fnarg.factor)) = FSum(Block(flux, j, fnarg.factor))

\* a remainder is really dropped: L is no multiple of factor, one block is left
C1_Witness ==
    /\ Rebinned /\ pc = "rebinned"
    /\ Len(wl) % fnarg.factor # 0
    /\ Len(wl_r) >= 1

\* C2: for factor >= 2 and strictly positive ivar, each rebinned ivar is
\* 1 / mean(1/ivar over its block), which differs from mean(ivar over the
\* block) whenever the block's values are not all equal; rebinned wavelength
\* and flux are the arithmetic block means.
C2_HarmonicIvar ==
    (Rebinned /\ AllPositive(ivar)) =>
        \A j \in Idx(ivar_r) :
            LET f  == fnarg.factor
                b  == Block(ivar, j, f)
                inv == [i \in Idx(b) |-> Rat(b[i].d, b[i].n)]
            IN  /\ FMul(ivar_r[j], FSum(inv)) = Num(f)
                /\ ((\E i \in Idx(b) : b[i] # b[1]) =>
                        FMul(ivar_r[j], Num(f)) # FSum(b))
                /\ FMul(wl_r[j], Num(f)) = FSum(Block(wl, j, f))
                /\ FMul(flux_r[j], Num(f)) = FSum(Block(flux, j, f))

\* a block with unequal positive ivar values has been rebinned
C2_Witness ==
    /\ Rebinned /\ AllPositive(ivar)
    /\ \E j \in Idx(ivar_r) :
         \E i \in Idx(Block(ivar, j, fnarg.factor)) :
            Block(ivar, j, fnarg.factor)[i] # Block(ivar, j, fnarg.factor)[1]

MaskIsExact ==
    /\ Len(m) = Len(flux) /\ Len(m) = Len(ivar)
    /\ \A i \in Idx(m) :
         m[i] <=> (flux[i].k = "num" /\ ivar[i].k = "num" /\ ivar[i].n > 0)

\* C3: valid_mask returns a mask of the length of its inputs whose i-th entry
\* is true exactly when flux[i] is finite, ivar[i] is finite and ivar[i] > 0,
\* and the call leaves flux and ivar as they were.
C3_ValidMask ==
    /\ [](pc = "masked" => MaskIsExact)
    /\ [][pc = "input" => (flux' = flux /\ ivar' = ivar)]_vars

\* a mask that rejects a sample for each reason and keeps another
C3_Witness ==
    /\ pc = "masked"
    /\ \E i, j \in Idx(m) : m[i] /\ ~m[j] /\ ivar[j] = PInf

-----------------------------------------------------------------------------
(* try_savgol applied to arbitrary arrays and parameters *)

\* every short array, and for each length a constant array, a sawtooth and a
\* sawtooth that starts with NaN
SmoothInputs ==
    Arrays({Num(1), Num(2), NaN}, MaxMaskLen)
        \cup {Full(L, Num(1)) : L \in 0 .. MaxSmoothLen}
        \cup {[i \in 1 .. L |-> Num(i % 3)] : L \in 0 .. MaxSmoothLen}
        \cup {[i \in 1 .. L |-> IF i = 1 THEN NaN ELSE Num(i % 3)] : L \in 0 .. MaxSmoothLen}
SgWindows == {2, 5, SG_WINDOW}
MaWindows == {0, 4, 5, MOVING_AVG_WINDOW}

InitSmooth ==
    /\ pc = "input"
    /\ flux_r \in SmoothInputs
    /\ \E w \in SgWindows, p \in 0 .. MaxPoly, k \in MaWindows :
         fnarg = [NoArg EXCEPT !.window = w, !.poly = p, !.moving_avg_window = k]
    /\ wl = <<>> /\ flux = <<>> /\ ivar = <<>> /\ m = <<>>
    /\ wl_r = <<>> /\ ivar_r = <<>>
    /\ sg = NoSg /\ flux_smooth = <<>> /\ flux_enhanced = <<>> /\ cont = <<>>
    /\ flux_plot = <<>>
    /\ NoCaller

\* flux_smooth = try_savgol(flux_r, window, poly, moving_avg_window); what the
\* installed scipy / LAPACK accept is any of the possibilities
CallTrySavgol ==
    /\ pc = "input"
    /\ \E even_ok \in BOOLEAN, nan_raises \in BOOLEAN :
         LET r == try_savgol(flux_r, fnarg.window, fnarg.poly,
                             fnarg.moving_avg_window, even_ok, nan_raises)
         IN  /\ pc' = IF r.raised THEN "raised" ELSE "smoothed"
             /\ sg' = [path |-> r.path, shrunk |-> r.shrunk, window |-> r.window,
                      kernel |-> r.kernel]
             /\ flux_smooth' = r.out
    /\ UNCHANGED <<widget_vars, caller, source_type, params, wl, flux, ivar, m, wl_r, flux_r,
                   ivar_r, flux_enhanced, cont, flux_plot, report, disk, calls,
                   fnarg, ret>>

NextSmooth == CallTrySavgol

SpecSmooth == InitSmooth /\ [][NextSmooth]_vars

\* C6: whenever try_savgol takes the moving-average fallback on an input of
\* length >= 1, the returned array has exactly the length of the input, for
\* every requested moving_avg_window (even, odd, below 3, above the length).
C6_FallbackLength ==
    (pc # "input" /\ sg.path = "moving_avg" /\ Len(flux_r) >= 1) =>
        Len(flux_smooth) = Len(flux_r)

\* the fallback ran with an even requested kernel wider than the data
C6_Witness ==
    /\ pc = "smoothed" /\ sg.path = "moving_avg"
    /\ Len(flux_r) >= 1
    /\ fnarg.moving_avg_window % 2 = 0
    /\ fnarg.moving_avg_window > Len(flux_r)

\* C7: for every non-empty input and every requested window, order and
\* fallback window, try_savgol returns an array and raises nothing; whenever
\* the corrected window exceeds the data length or the order is not below it,
\* the moving-average branch is the one that ran.
C7_NeverRaises ==
    (pc # "input" /\ Len(flux_r) >= 1) =>
        /\ pc = "smoothed"
        /\ sg.path \in {"savgol", "moving_avg"}
        /\ Len(flux_smooth) >= 1
        /\ ((sg.window > Len(flux_r) \/ fnarg.poly >= sg.window) =>
                sg.path = "moving_avg" /\ sg.kernel >= 3)

\* the primary filter was rejected because its window exceeds the data
C7_Witness ==
    /\ pc = "smoothed" /\ Len(flux_r) >= 1
    /\ sg.window > Len(flux_r)
    /\ sg.path = "moving_avg"

\* the requested window, forced odd and >= 3, exceeds the array length
WindowExceeds ==
    pc # "input" /\ Len(flux_r) >= 1 /\ Max(3, or1(fnarg.window)) > Len(flux_r)
LargestOddAtMost(n) ==
    CHOOSE w \in 1 .. n : w % 2 = 1 /\ \A v \in 1 .. n : v % 2 = 1 => v <= w

C23_Original ==
    (pc # "input" /\ fnarg.poly >= 1) =>
        /\ sg.window % 2 = 1
        /\ sg.window >= 3
        /\ sg.window > fnarg.poly + 1

\* C23: the window handed to the primary filter is at least 3 and strictly
\* greater than order + 1; it is order + 3 when the window left by the shrink
\* step is below order + 2, and it is even exactly in that case with an odd
\* order.
C23_WindowAboveOrder ==
    (pc # "input" /\ fnarg.poly >= 1) =>
        /\ sg.window >= 3
        /\ sg.window > fnarg.poly + 1
        /\ sg.shrunk < fnarg.poly + 2 => sg.window = fnarg.poly + 3
        /\ sg.shrunk >= fnarg.poly + 2 => sg.window = sg.shrunk
        /\ sg.window % 2 = 0 <=> (sg.shrunk < fnarg.poly + 2 /\ fnarg.poly % 2 = 1)

\* a window of 3 was raised to 6 for order 3 and the filter ran with it
C23_Witness ==
    /\ pc = "smoothed" /\ fnarg.poly = 3 /\ sg.shrunk = 3
    /\ sg.window = 6 /\ sg.path = "savgol"

-----------------------------------------------------------------------------
(* enhance_line_detection applied to arbitrary arrays *)

InitEnhance ==
    /\ pc = "input"
    /\ flux_smooth \in Arrays({Num(-1), Num(1), Num(2), NaN}, MaxEnhLen)
    /\ \E e \in 1 .. MaxEnh : fnarg = [NoArg EXCEPT !.enhancement_factor = e]
    /\ wl = <<>> /\ flux = <<>> /\ ivar = <<>> /\ m = <<>>
    /\ wl_r = <<>> /\ flux_r = <<>> /\ ivar_r = <<>>
    /\ sg = NoSg /\ flux_enhanced = <<>> /\ cont = <<>> /\ flux_plot = <<>>
    /\ NoCaller

\* flux_enhanced = enhance_line_detection(flux_smooth, enhancement_factor)
CallEnhance ==
    /\ pc = "input"
    /\ LET r == enhance_line_detection(flux_smooth, fnarg.enhancement_factor)
       IN  /\ pc' = IF r.raised THEN "raised" ELSE "enhanced"
           /\ flux_enhanced' = r.out
    /\ UNCHANGED <<widget_vars, caller, source_type, params, wl, flux, ivar, m, wl_r, flux_r,
                   ivar_r, sg, flux_smooth, cont, flux_plot, report, disk, calls,
                   fnarg, ret>>

NextEnhance == CallEnhance

SpecEnhance == InitEnhance /\ [][NextEnhance]_vars

IsConstant(a) ==
    Len(a) >= 1 /\ \A i \in Idx(a) : isfinite(a[i]) /\ a[i] = a[1]

\* C8: for a constant flux array (max == min) enhance_line_detection returns
\* the input values unchanged and never produces NaN, for every
\* enhancement_factor > 0.
C8_ConstantPassThrough ==
    (pc # "input" /\ IsConstant(flux_smooth)) =>
        /\ pc = "enhanced"
        /\ flux_enhanced = flux_smooth
        /\ ~anynan(flux_enhanced)

-----------------------------------------------------------------------------
(* running_percentile and the callers' substitution step *)

ContWindows == {1, 3, 51, CONTINUUM_WINDOW}
Percentiles == {0, 50, CONTINUUM_PERCENTILE, 100}

\* spectra long enough for the sliding branch (more samples than the
\* smallest window, 51): k samples at -1 followed by samples at 2
LongSpectra ==
    {[i \in 1 .. LongLen |-> IF i <= k THEN Num(-1) ELSE Num(2)] :
        k \in {0, LongLen \div 2, LongLen}}

InitContinuum ==
    /\ pc = "input"
    /\ flux_enhanced \in
          Arrays({Num(-1), Num(0), Num(2), Num(5), NaN}, MaxContLen) \cup LongSpectra
    /\ cont = <<>>
    /\ \E w \in ContWindows, q \in Percentiles :
         fnarg = [NoArg EXCEPT !.win = w, !.q = q]
    /\ wl = <<>> /\ flux = <<>> /\ ivar = <<>> /\ m = <<>>
    /\ wl_r = <<>> /\ flux_r = <<>> /\ ivar_r = <<>>
    /\ sg = NoSg /\ flux_smooth = <<>> /\ flux_plot = <<>>
    /\ NoCaller

\* cont = running_percentile(flux_enhanced, win, q)
CallRunningPercentile ==
    /\ pc = "input"
    /\ cont' = running_percentile(flux_enhanced, fnarg.win, fnarg.q)
    /\ pc' = "continuum"
    /\ UNCHANGED <<widget_vars, caller, source_type, params, wl, flux, ivar, m, wl_r, flux_r,
                   ivar_r, sg, flux_smooth, flux_enhanced, flux_plot, report,
                   disk, calls, fnarg, ret>>

\* cont = np.where(cont <= 0, np.nanmedian(cont[cont>0]), cont)
\* flux_plot = flux_enhanced / cont
NormalizeContinuum ==
    /\ pc = "continuum"
    /\ cont' = substitute_continuum(cont)
    /\ flux_plot' = [i \in Idx(flux_enhanced) |->
                        FDiv(flux_enhanced[i], substitute_continuum(cont)[i])]
    /\ pc' = "normalized"
    /\ UNCHANGED <<widget_vars, caller, source_type, params, wl, flux, ivar, m, wl_r, flux_r,
                   ivar_r, sg, flux_smooth, flux_enhanced, report, disk, calls,
                   fnarg, ret>>

NextContinuum == CallRunningPercentile \/ NormalizeContinuum

SpecContinuum == InitContinuum /\ [][NextContinuum]_vars

\* C9: for every array y and every requested window win >= len(y),
\* running_percentile returns an array of the length of y in which every
\* element equals the median of y, whatever the percentile q; the median is
\* taken over the elements of y that are not NaN (np.nanmedian), which is the
\* plain median of y whenever y holds no NaN.
C9_CollapseToMedian ==
    (pc = "continuum" /\ fnarg.win >= Len(flux_enhanced)) =>
        /\ Len(cont) = Len(flux_enhanced)
        /\ \A i \in Idx(cont) :
             /\ cont[i] = np_median(dropnan(flux_enhanced))
             /\ (~anynan(flux_enhanced) => cont[i] = np_median(flux_enhanced))

\* the collapse happened for a percentile other than 50 on an array whose
\* percentile and median differ
C9_Witness ==
    /\ pc = "continuum" /\ fnarg.win >= Len(flux_enhanced)
    /\ Len(cont) = MaxContLen /\ Len(flux_enhanced) = MaxContLen
    /\ fnarg.q = CONTINUUM_PERCENTILE
    /\ ~anynan(flux_enhanced)
    /\ np_nanpercentile(flux_enhanced, fnarg.q) # cont[1]

\* C10: after the substitution step the continuum used as divisor is
\* strictly positive at every index, for every continuum array, including
\* one without any strictly positive value.
C10_PositiveDivisor ==
    pc = "normalized" =>
        \A i \in Idx(cont) : cont[i].k = "num" /\ cont[i].n > 0

-----------------------------------------------------------------------------
(* spectral_analysis.py *)

\* the root of the mean squared deviation from mu
root_mean_square(s, mu) ==
    Sqrt(np_mean([i \in Idx(s) |-> FMul(FSub(s[i], mu), FSub(s[i], mu))]))

\* np.std (ddof = 0): the root of the mean squared deviation from the mean
np_std(s) == root_mean_square(s, np_mean(s))

\* scipy.stats.median_abs_deviation (scale = 1, NaN propagates)
median_abs_deviation(s) ==
    LET med == np_median(s)
    IN  np_median([i \in Idx(s) |-> FAbs(FSub(s[i], med))])

\* noise > 0 for a standard deviation
positive(x) == (x.k = "sqrt" /\ x.n > 0) \/ (x.k = "num" /\ x.n > 0) \/ x = PInf

\* signal / noise for a finite signal and a standard deviation that is
\* positive: sign(signal) * sqrt(signal^2 / variance)
div_by_std(signal, noise) ==
    LET var == [k |-> "num", n |-> noise.n, d |-> noise.d]
        sq == FDiv(FMul(signal, signal), var)
    IN  [k |-> "sqrt", n |-> Sign(signal.n) * sq.n, d |-> sq.d]

\* np.median of a non-empty list of such ratios; the mean of two different
\* middle ratios is kept as the pair (k = "mean")
median_of_ratios(r) ==
    LET t == np_sort([i \in Idx(r) |-> [k |-> "num", n |-> r[i].n, d |-> r[i].d]])
        n == Len(t)
        root(q) == [k |-> "sqrt", n |-> q.n, d |-> q.d]
    IN  IF n % 2 = 1 THEN root(t[(n + 1) \div 2])
        ELSE IF t[n \div 2] = t[n \div 2 + 1] THEN root(t[n \div 2])
        ELSE [k |-> "mean", lo |-> root(t[n \div 2]), hi |-> root(t[n \div 2 + 1])]

\* signal / noise, None when the noise is not positive
snr_of(signal, noise) == IF positive(noise) THEN div_by_std(signal, noise) ELSE None

\* the SNR of one segment, None when its noise is not positive
segment_snr(segment) == snr_of(np_median(segment), np_std(segment))

\* lines 20-22: np.median(snr_values) if snr_values else 0
snr_median(snr_values) ==
    IF Len(snr_values) > 0 THEN median_of_ratios(snr_values) ELSE Num(0)

\* lines 18-22: the values of the segments whose noise is positive
snr_of_segments(per_segment) ==
    snr_median(Select(per_segment, [i \in Idx(per_segment) |-> per_segment[i] # None]))

\* a variant that also takes the trailing partial segment
calculate_snr_with_tail(f, window) ==
    LET n_segments == (Len(f) + window - 1) \div window
        per_segment ==
            [i \in 1 .. n_segments |->
                segment_snr(SubSeq(f, (i - 1) * window + 1, Min(i * window, Len(f))))]
        snr_values == Select(per_segment, [i \in 1 .. n_segments |-> per_segment[i] # None])
    IN  IF Len(snr_values) > 0 THEN median_of_ratios(snr_values) ELSE Num(0)

\* calculate_snr(flux, window)
calculate_snr(f, window) ==
    snr_of_segments(np_array([i \in 1 .. (Len(f) \div window) |->
                                segment_snr(SubSeq(f, (i - 1) * window + 1, i * window))]))

\* np.argmin: the index of the first minimum; of the first NaN if there is one
np_argmin(s) ==
    IF anynan(s) THEN CHOOSE i \in Idx(s) : isnan(s[i]) /\ \A j \in 1 .. i - 1 : ~isnan(s[j])
    ELSE CHOOSE i \in Idx(s) :
            /\ \A j \in Idx(s) : FLe(s[i], s[j])
            /\ \A j \in 1 .. i - 1 : FLt(s[i], s[j])

\* np.true_divide(a, b, out=zeros, where=b != 0)
div_where(a, b) == IF b = Num(0) THEN Num(0) ELSE FDiv(a, b)

\* scipy.integrate.simpson: Simpson's rule over the pairs of intervals
\* [first, first+2], [first+2, first+4], ... that end at or before last
basic_simpson(y, x, first, last) ==
    FSum([p \in 1 .. ((last - first) \div 2) |->
            LET i == first + 2 * (p - 1)
                h0 == FSub(x[i + 1], x[i])
                h1 == FSub(x[i + 2], x[i + 1])
                hsum == FAdd(h0, h1)
                hprod == FMul(h0, h1)
                h0divh1 == div_where(h0, h1)
            IN  FMul(FDiv(hsum, Num(6)),
                     FAdd(FAdd(FMul(y[i], FSub(Num(2), div_where(Num(1), h0divh1))),
                               FMul(y[i + 1], FMul(hsum, div_where(hsum, hprod)))),
                          FMul(y[i + 2], FSub(Num(2), h0divh1))))])

\* an even number of samples, scipy before 1.11 (even='avg'): the mean of
\* Simpson on the first N-1 samples plus a trapezoid on the last interval and
\* of a trapezoid on the first interval plus Simpson on the last N-1 samples
simpson_even_avg(y, x) ==
    LET N == Len(y)
        val == FAdd(FMul(FMul(Rat(1, 2), FSub(x[N], x[N - 1])), FAdd(y[N], y[N - 1])),
                    FMul(FMul(Rat(1, 2), FSub(x[2], x[1])), FAdd(y[2], y[1])))
        result == FAdd(basic_simpson(y, x, 1, N - 1), basic_simpson(y, x, 2, N))
    IN  FAdd(FDiv(result, Num(2)), FDiv(val, Num(2)))

\* an even number of samples, scipy 1.11 and later: Simpson on the first N-1
\* samples plus the parabola through the last three samples over the last
\* interval; two samples are a trapezoid
simpson_even_correction(y, x) ==
    LET N == Len(y)
        h0 == FSub(x[N - 1], x[N - 2])
        h1 == FSub(x[N], x[N - 1])
        alpha == FDiv(FAdd(FMul(Num(2), FMul(h1, h1)), FMul(Num(3), FMul(h0, h1))),
                      FMul(Num(6), FAdd(h1, h0)))
        beta == FDiv(FAdd(FMul(h1, h1), FMul(Num(3), FMul(h0, h1))), FMul(Num(6), h0))
        eta == FDiv(FMul(h1, FMul(h1, h1)), FMul(FMul(Num(6), h0), FAdd(h0, h1)))
    IN  IF N = 2 THEN FMul(FMul(Rat(1, 2), FSub(x[2], x[1])), FAdd(y[1], y[2]))
        ELSE FAdd(basic_simpson(y, x, 1, N - 1),
                  FSub(FAdd(FMul(alpha, y[N]), FMul(beta, y[N - 1])), FMul(eta, y[N - 2])))

\* simpson(y, x); which rule an even number of samples gets depends on the
\* installed scipy (even_avg)
simpson(y, x, even_avg) ==
    IF Len(y) % 2 = 1 THEN basic_simpson(y, x, 1, Len(y))
    ELSE IF even_avg THEN simpson_even_avg(y, x)
    ELSE simpson_even_correction(y, x)

\* the last k elements (all of them if there are fewer)
Last(s, k) == SubSeq(s, Max(1, Len(s) - k + 1), Len(s))

\* the width between the nearest half-maximum samples strictly left and
\* strictly right of the minimum
fwhm_right_of_minimum(wl_window, flux_window, min_flux_idx, half_max) ==
    LET left_idx == {i \in 1 .. min_flux_idx - 1 : FLe(flux_window[i], half_max)}
        right_idx == {i \in min_flux_idx + 1 .. Len(flux_window) : FLe(flux_window[i], half_max)}
    IN  IF left_idx # {} /\ right_idx # {}
        THEN FSub(wl_window[CHOOSE i \in right_idx : \A j \in right_idx : i <= j],
                  wl_window[CHOOSE i \in left_idx : \A j \in left_idx : i >= j])
        ELSE NaN

\* measure_line_parameters, lines 46-56: the slice flux_window[min_flux_idx:]
\* starts at the minimum itself
fwhm_of(wl_window, flux_window, min_flux_idx, half_max) ==
    LET left_idx == {i \in 1 .. min_flux_idx - 1 : FLe(flux_window[i], half_max)}
        right_idx == {i \in min_flux_idx .. Len(flux_window) : FLe(flux_window[i], half_max)}
    IN  IF left_idx # {} /\ right_idx # {}
        THEN FSub(wl_window[CHOOSE i \in right_idx : \A j \in right_idx : i <= j],
                  wl_window[CHOOSE i \in left_idx : \A j \in left_idx : i >= j])
        ELSE NaN

\* a variant that takes the lowest sample of the window as the continuum
local_continuum_lowest(flux_window) == np_min(flux_window)

\* continuum = (median(flux_window[:5]) + median(flux_window[-5:])) / 2
local_continuum(flux_window) ==
    FDiv(FAdd(np_median(Take(flux_window, Min(5, Len(flux_window)))),
              np_median(Last(flux_window, 5))), Num(2))

\* measure_line_parameters(wavelengths, flux, line_center, window); None when
\* the window holds no sample
measure_line_parameters(wavelengths, f, line_center, window, even_avg) ==
    LET mask == [i \in Idx(wavelengths) |->
                    /\ FLe(FSub(line_center, window), wavelengths[i])
                    /\ FLe(wavelengths[i], FAdd(line_center, window))]
        wl_window == Select(wavelengths, mask)
        flux_window == Select(f, mask)
        min_flux_idx == np_argmin(flux_window)
        min_flux == flux_window[min_flux_idx]
        continuum == local_continuum(flux_window)
        half_max == FDiv(FAdd(continuum, min_flux), Num(2))
    IN  IF Len(flux_window) = 0 THEN None
        ELSE [observed_center |-> wl_window[min_flux_idx],
              equivalent_width |->
                  simpson([i \in Idx(flux_window) |->
                              FSub(Num(1), FDiv(flux_window[i], continuum))],
                          wl_window, even_avg),
              fwhm |-> fwhm_of(wl_window, flux_window, min_flux_idx, half_max),
              depth |-> FSub(Num(1), FDiv(min_flux, continuum)),
              continuum_level |-> continuum]

\* a variant that divides by the observed wavelength
calculate_redshift_by_observed(observed_wavelength, rest_wavelength) ==
    FDiv(FSub(observed_wavelength, rest_wavelength), observed_wavelength)

\* calculate_redshift
calculate_redshift(observed_wavelength, rest_wavelength) ==
    FDiv(FSub(observed_wavelength, rest_wavelength), rest_wavelength)

\* a variant that also retains the values exactly at the threshold
robust_redshift_inclusive(redshifts, sigma_clip) ==
    LET median_z == np_median(redshifts)
        mad_z == median_abs_deviation(redshifts)
        filtered_redshifts ==
            Select(redshifts,
                   [i \in Idx(redshifts) |->
                       FLe(FAbs(FSub(redshifts[i], median_z)), FMul(sigma_clip, mad_z))])
    IN  IF Len(redshifts) = 0 THEN [value |-> None, error |-> None, n |-> 0]
        ELSE IF Len(filtered_redshifts) = 0
        THEN [value |-> median_z, error |-> mad_z, n |-> Len(redshifts)]
        ELSE [value |-> np_mean(filtered_redshifts), error |-> np_std(filtered_redshifts),
              n |-> Len(filtered_redshifts)]

\* a variant that reports what the clipping retained even when that is nothing
robust_redshift_no_fallback(redshifts, sigma_clip) ==
    LET median_z == np_median(redshifts)
        mad_z == median_abs_deviation(redshifts)
        filtered_redshifts ==
            Select(redshifts,
                   [i \in Idx(redshifts) |->
                       FLt(FAbs(FSub(redshifts[i], median_z)), FMul(sigma_clip, mad_z))])
    IN  IF Len(redshifts) = 0 THEN [value |-> None, error |-> None, n |-> 0]
        ELSE [value |-> np_mean(filtered_redshifts), error |-> np_std(filtered_redshifts),
              n |-> Len(filtered_redshifts)]

\* robust_redshift_calculation(redshifts, sigma_clip): (value, error, count)
robust_redshift_calculation(redshifts, sigma_clip) ==
    LET median_z == np_median(redshifts)
        mad_z == median_abs_deviation(redshifts)
        filtered_redshifts ==
            Select(redshifts,
                   [i \in Idx(redshifts) |->
                       FLt(FAbs(FSub(redshifts[i], median_z)), FMul(sigma_clip, mad_z))])
    IN  IF Len(redshifts) = 0 THEN [value |-> None, error |-> None, n |-> 0]
        ELSE IF Len(filtered_redshifts) = 0
        THEN [value |-> median_z, error |-> mad_z, n |-> Len(redshifts)]
        ELSE [value |-> np_mean(filtered_redshifts), error |-> np_std(filtered_redshifts),
              n |-> Len(filtered_redshifts)]

\* x == y for floats: false as soon as one side is NaN
FEq(a, b) == ~isnan(a) /\ ~isnan(b) /\ a = b

\* scipy.signal._peak_finding_utils._local_maxima_1d: the midpoints of the
\* plateaus that rise on the left and fall on the right; the first and the
\* last sample are never a peak
local_maxima_1d(x) ==
    {(i + j) \div 2 :
        <<i, j>> \in {e \in (2 .. Len(x) - 1) \X (2 .. Len(x) - 1) :
                        /\ e[1] <= e[2]
                        /\ FLt(x[e[1] - 1], x[e[1]])
                        /\ \A q \in e[1] .. e[2] : FEq(x[q], x[e[1]])
                        /\ FLt(x[e[2] + 1], x[e[1]])}}

\* scipy.signal._peak_finding_utils._select_by_peak_distance: the peaks are
\* taken from the highest down (among equal heights the later one first, the
\* argsort of a short array being stable) and each one taken removes the
\* peaks closer than distance
select_by_peak_distance(peaks, x, distance) ==
    LET higher(p, q) == FLt(x[q], x[p]) \/ (x[q] = x[p] /\ p > q)
        ord == [r \in 1 .. Cardinality(peaks) |->
                   CHOOSE p \in peaks : Cardinality({q \in peaks : higher(q, p)}) = r - 1]
        keep[r \in 0 .. Cardinality(peaks)] ==
            IF r = 0 THEN {}
            ELSE IF \E q \in keep[r - 1] : Abs(ord[r] - q) < distance
                 THEN keep[r - 1]
                 ELSE keep[r - 1] \cup {ord[r]}
    IN  keep[Cardinality(peaks)]

\* scipy.signal.find_peaks(x, height, distance): the positions of the peaks
find_peaks(x, height, distance) ==
    select_by_peak_distance({p \in local_maxima_1d(x) : FLe(height, x[p])}, x, distance)

\* scipy.signal._peak_finding_utils._peak_prominences (no wlen): the bases
\* are the lowest samples between the peak and the next higher sample
peak_prominences(x, peak) ==
    LET left_end == IF \E i \in 1 .. peak : ~FLe(x[i], x[peak])
                    THEN 1 + CHOOSE i \in 1 .. peak :
                             /\ ~FLe(x[i], x[peak])
                             /\ \A q \in i + 1 .. peak : FLe(x[q], x[peak])
                    ELSE 1
        right_end == IF \E i \in peak .. Len(x) : ~FLe(x[i], x[peak])
                     THEN (CHOOSE i \in peak .. Len(x) :
                              /\ ~FLe(x[i], x[peak])
                              /\ \A q \in peak .. i - 1 : FLe(x[q], x[peak])) - 1
                     ELSE Len(x)
        left_min == np_min(SubSeq(x, left_end, peak))
        right_min == np_min(SubSeq(x, peak, right_end))
        \* the base is the sample nearest to the peak that holds the minimum
        left_base == CHOOSE i \in left_end .. peak :
                        x[i] = left_min /\ \A q \in i + 1 .. peak : x[q] # left_min
        right_base == CHOOSE i \in peak .. right_end :
                        x[i] = right_min /\ \A q \in peak .. i - 1 : x[q] # right_min
    IN  [prominence |-> FSub(x[peak], IF FLt(left_min, right_min) THEN right_min ELSE left_min),
         left_base |-> left_base, right_base |-> right_base]

\* scipy.signal._peak_finding_utils._peak_widths: the distance, in samples,
\* between the two crossings of the evaluation height, each interpolated
\* linearly
peak_widths(x, peak, rel_height) ==
    LET pp == peak_prominences(x, peak)
        height == FSub(x[peak], FMul(pp.prominence, rel_height))
        li == CHOOSE i \in pp.left_base .. peak :
                /\ (pp.left_base < i => ~FLt(height, x[i]))
                /\ \A q \in i + 1 .. peak : FLt(height, x[q])
        ri == CHOOSE i \in peak .. pp.right_base :
                /\ (i < pp.right_base => ~FLt(height, x[i]))
                /\ \A q \in peak .. i - 1 : FLt(height, x[q])
        left_ip == IF FLt(x[li], height)
                   THEN FAdd(Num(li), FDiv(FSub(height, x[li]), FSub(x[li + 1], x[li])))
                   ELSE Num(li)
        right_ip == IF FLt(x[ri], height)
                    THEN FSub(Num(ri), FDiv(FSub(height, x[ri]), FSub(x[ri - 1], x[ri])))
                    ELSE Num(ri)
    IN  FSub(right_ip, left_ip)

\* the set s of positions as an ascending sequence
Ascending(s) ==
    [r \in 1 .. Cardinality(s) |-> CHOOSE p \in s : Cardinality({q \in s : q < p}) = r - 1]

\* a variant that reports the height of the peak in flux units above the
\* lowest sample instead of the normalised height
find_emission_lines_amplitude(wavelengths, f, height_threshold, distance) ==
    IF Len(f) = 0 \/ Len(wavelengths) < 2 THEN [raised |-> TRUE, lines |-> <<>>]
    ELSE
    LET norm_flux == [i \in Idx(f) |->
                        FDiv(FSub(f[i], np_min(f)), FSub(np_max(f), np_min(f)))]
        peaks == Ascending(find_peaks(norm_flux, height_threshold, distance))
    IN  [raised |-> FALSE,
         lines |-> [i \in Idx(peaks) |->
                      [wavelength |-> wavelengths[peaks[i]],
                       strength |-> FSub(f[peaks[i]], np_min(f)),
                       fwhm |-> FMul(peak_widths(norm_flux, peaks[i], Rat(1, 2)),
                                     FSub(wavelengths[2], wavelengths[1]))]]]

\* line 119: norm_flux = (flux - np.min(flux)) / (np.max(flux) - np.min(flux))
normalized(f, lo, hi) == [i \in Idx(f) |-> FDiv(FSub(f[i], lo), FSub(hi, lo))]

\* lines 123-138: the line at every peak
emission_lines_at(wavelengths, norm_flux, peaks) ==
    [raised |-> FALSE,
     lines |-> [i \in Idx(peaks) |->
                  [wavelength |-> wavelengths[peaks[i]],
                   strength |-> norm_flux[peaks[i]],
                   fwhm |-> FMul(peak_widths(norm_flux, peaks[i], Rat(1, 2)),
                                 FSub(wavelengths[2], wavelengths[1]))]]]

\* lines 121-138: the peaks of the normalised flux and their lines
emission_lines_found(wavelengths, norm_flux, height_threshold, distance) ==
    emission_lines_at(wavelengths, norm_flux,
                      Ascending(find_peaks(norm_flux, height_threshold, distance)))

\* find_emission_lines(wavelengths, flux, height_threshold, distance): np.min
\* raises ValueError on an empty flux and wavelengths[1] raises IndexError on
\* fewer than two samples
find_emission_lines(wavelengths, f, height_threshold, distance) ==
    IF Len(f) = 0 \/ Len(wavelengths) < 2 THEN [raised |-> TRUE, lines |-> <<>>]
    ELSE emission_lines_found(wavelengths,
                              np_array(normalized(f, np_min(f), np_max(f))),
                              height_threshold, distance)

\* a variant that measures a line whose window holds no sample as all NaN
measure_line_never_none(wavelengths, f, line_center, window, even_avg) ==
    LET r == measure_line_parameters(wavelengths, f, line_center, window, even_avg)
    IN  IF r = None
        THEN [observed_center |-> NaN, equivalent_width |-> NaN, fwhm |-> NaN,
              depth |-> NaN, continuum_level |-> NaN]
        ELSE r

\* measure_line_parameters as generate_spectral_report calls it
measure_line(wavelengths, f, line_center, window, even_avg) ==
    measure_line_parameters(wavelengths, f, line_center, window, even_avg)

\* calculate_mg_fe_index with its default lines and window; np.mean of an
\* empty selection is NaN (a warning)
calculate_mg_fe_index(wavelengths, f) ==
    LET mg_mask == [i \in Idx(wavelengths) |->
                       FLe(Num(5175 - 20), wavelengths[i]) /\ FLe(wavelengths[i], Num(5175 + 20))]
        fe_mask == [i \in Idx(wavelengths) |->
                       FLe(Num(5270 - 20), wavelengths[i]) /\ FLe(wavelengths[i], Num(5270 + 20))]
    IN  FDiv(np_mean(Select(f, mg_mask)), np_mean(Select(f, fe_mask)))

\* estimate_temperature: (label, value)
estimate_temperature(hbeta_ew) ==
    IF FLt(hbeta_ew, Num(2)) THEN <<"Muy caliente (>10000 K)", 11000>>
    ELSE IF FLt(hbeta_ew, Num(4)) THEN <<"Caliente (8000-10000 K)", 9000>>
    ELSE IF FLt(hbeta_ew, Num(6)) THEN <<"Intermedia (6000-8000 K)", 7000>>
    ELSE <<"Fria (<6000 K)", 5500>>

\* x * 299792.458, kept as the factor x
times_c(x) == [k |-> "times_c", x |-> x]

\* the window calculate_snr and measure_line_parameters get by default, and
\* the defaults of find_emission_lines
SnrDefaultWindow == 100
LineDefaultWindow == 10
EmissionHeight == Rat(1, 10)
EmissionDistance == 10

\* the name of the H-beta line in lines_dict
Hbeta == "Hbeta"

\* SPECTRAL_LINES, in the order of the dictionary
SPECTRAL_LINES ==
    <<[name |-> Hbeta, rest_wl |-> Rat(48613, 10)],
      [name |-> "Mg I 5172", rest_wl |-> Rat(51727, 10)],
      [name |-> "Fe I 5328", rest_wl |-> Num(5328)]>>

EmptyDict == [x \in {} |-> None]

\* generate_spectral_report, lines 160-161: the measurement of every item of
\* lines_dict (the sequence of the dictionary's (name, rest_wl) items)
line_measurements(wavelengths, f, lines_dict, even_avg) ==
    [i \in Idx(lines_dict) |->
        measure_line(wavelengths, f, lines_dict[i].rest_wl, Num(LineDefaultWindow), even_avg)]

\* lines 162-167: the redshift of every measured line
line_redshifts(lines_dict, ms) ==
    [i \in Idx(lines_dict) |->
        IF ms[i] = None THEN None
        ELSE calculate_redshift(ms[i].observed_center, lines_dict[i].rest_wl)]

\* lines 162-168: report['absorption_lines'] and the list redshifts; a name
\* that occurs twice in the sequence keeps its last item
absorption_lines_of(lines_dict, ms, zs) ==
    LET item(name) == CHOOSE i \in Idx(lines_dict) :
                          /\ lines_dict[i].name = name
                          /\ \A j \in Idx(lines_dict) : lines_dict[j].name = name => j <= i
    IN  [name \in {lines_dict[i].name : i \in {j \in Idx(lines_dict) : ms[j] # None}} |->
            ms[item(name)] @@ ("redshift" :> zs[item(name)])]
redshift_list(zs) == Select(zs, [i \in Idx(zs) |-> zs[i] # None])

\* a variant that tests the upper buckets first
metallicity_estimate_from_above(mg_fe_ratio) ==
    IF FLe(Rat(11, 10), mg_fe_ratio) THEN "Alta metalicidad"
    ELSE IF FLe(Rat(9, 10), mg_fe_ratio) THEN "Metalicidad solar"
    ELSE "Baja metalicidad"

\* lines 193-199: the bucket of the Mg/Fe ratio
metallicity_estimate(mg_fe_ratio) ==
    IF FLt(mg_fe_ratio, Rat(9, 10)) THEN "Baja metalicidad"
    ELSE IF FLt(mg_fe_ratio, Rat(11, 10)) THEN "Metalicidad solar"
    ELSE "Alta metalicidad"

\* lines 145-208: the report, given what the measurements, the redshift
\* statistics, the emission-line search and the Mg/Fe index returned
assemble_report(wavelengths, f, absorption_lines, redshifts, robust, emission, mg_fe_ratio) ==
    LET temperature == estimate_temperature(absorption_lines[Hbeta].equivalent_width)
    IN  IF emission.raised THEN [raised |-> TRUE, report |-> None]
        ELSE [raised |-> FALSE,
              report |->
                [wavelength_range |->
                    [min |-> np_min(wavelengths), max |-> np_max(wavelengths),
                     delta |-> FSub(np_max(wavelengths), np_min(wavelengths))],
                 snr |-> calculate_snr(f, SnrDefaultWindow),
                 absorption_lines |-> absorption_lines,
                 emission_lines |-> emission.lines,
                 mg_fe_ratio |-> mg_fe_ratio,
                 metallicity_estimate |-> metallicity_estimate(mg_fe_ratio)]
                @@ (IF Len(redshifts) > 0
                    THEN "redshift" :>
                            [value |-> robust.value, error |-> robust.error,
                             n_lines_used |-> robust.n, n_lines_total |-> Len(redshifts)]
                         @@ "radial_velocity" :>
                            [value |-> times_c(robust.value), error |-> times_c(robust.error)]
                    ELSE EmptyDict)
                @@ (IF Hbeta \in DOMAIN absorption_lines
                    THEN "temperature_estimate" :> temperature[1]
                         @@ "temperature_value" :> temperature[2]
                    ELSE EmptyDict)]

\* lines 171-188: the redshift statistics, the emission lines and the index
report_from_redshifts(wavelengths, f, absorption_lines, redshifts, redshift_sigma_clip) ==
    assemble_report(wavelengths, f, absorption_lines, redshifts,
                    robust_redshift_calculation(redshifts, redshift_sigma_clip),
                    find_emission_lines(wavelengths, f, EmissionHeight, EmissionDistance),
                    calculate_mg_fe_index(wavelengths, f))

report_from_measurements(wavelengths, f, lines_dict, ms, redshift_sigma_clip) ==
    report_from_redshifts(wavelengths, f,
                          absorption_lines_of(lines_dict, ms, line_redshifts(lines_dict, ms)),
                          redshift_list(line_redshifts(lines_dict, ms)),
                          redshift_sigma_clip)

\* generate_spectral_report(wavelengths, flux, ivar, lines_dict,
\* redshift_sigma_clip): np.min(wavelengths) raises ValueError on an empty
\* array and find_emission_lines raises IndexError on a single sample
generate_spectral_report(wavelengths, f, iv, lines_dict, redshift_sigma_clip, even_avg) ==
    IF Len(wavelengths) = 0 THEN [raised |-> TRUE, report |-> None]
    ELSE report_from_measurements(wavelengths, f, lines_dict,
                                  line_measurements(wavelengths, f, lines_dict, even_avg),
                                  redshift_sigma_clip)

-----------------------------------------------------------------------------
(* The callers: src/main.py main, src/src/main.py analyze_file,            *)
(* gui.py MainWindow.analyze                                               *)

Callers == {"cli_main", "analyze_file", "gui"}

\* the files the command-line callers write
OutputFiles ==
    {"spectral_analysis_report.json", "processed_spectrum.csv",
     "detailed_spectral_analysis.png"}

\* a report left in MainWindow.report by an earlier analysis
StoredReport ==
    [wavelength_range |-> [min |-> Num(3700), max |-> Num(9000), delta |-> Num(5300)]]

\* samples a LAMOST file may hold, <<flux, ivar>>: two good ones and a bad pixel
LamostSamples == {<<Num(1), Num(1)>>, <<Num(2), Num(1)>>, <<NaN, Num(0)>>}
\* flux values a generic FITS / text file may hold
UniversalFlux == {Num(1), Num(2), NaN}

\* enhancement_factor=1.3 in all three callers.  A power with a fractional
\* exponent has no exact value; the callers are run with the exponent 2, which
\* like 1.3 is convex and increasing on [0, 1] and fixes 0 and 1.
EnhExp == 2

\* the guard without effect
no_empty_guard(c, fr) == FALSE

\* the guard after rebinning: main.py:105, src/main.py:234, gui.py:1660
empty_after_rebin(c, fr) ==
    IF c = "analyze_file"
    THEN Len(fr) = 0 \/ ~(\E i \in Idx(fr) : isfinite(fr[i]))
    ELSE Len(fr) = 0

\* current_sg_window: main.py:110-113, src/main.py:239-242, gui.py:1681-1683
current_sg_window(c, p, n) ==
    IF p.SG_WINDOW > n
    THEN (IF c = "gui" THEN Max(3, n - 1) ELSE shrink(n))
    ELSE p.SG_WINDOW

InitPipeline ==
    /\ pc = "start"
    /\ caller \in Callers
    /\ source_type \in {"LAMOST", "UNIVERSAL"}
    /\ caller = "cli_main" => source_type = "LAMOST"
    /\ \E f \in {2, REBIN_FACTOR}, norm \in BOOLEAN :
         /\ params = [DEFAULT_PARAMS EXCEPT !.REBIN_FACTOR = f,
                                            !.DO_CONTINUUM_NORM = norm]
         /\ caller # "gui" => params = DEFAULT_PARAMS
         /\ source_type = "UNIVERSAL" => f = REBIN_FACTOR
    /\ report \in {None, StoredReport}
    /\ caller # "gui" => report = None
    /\ wl = <<>> /\ flux = <<>> /\ ivar = <<>> /\ m = <<>>
    /\ wl_r = <<>> /\ flux_r = <<>> /\ ivar_r = <<>>
    /\ sg = NoSg /\ flux_smooth = <<>> /\ flux_enhanced = <<>> /\ cont = <<>>
    /\ flux_plot = <<>> /\ fnarg = NoArg /\ ret = None
    /\ disk = {} /\ calls = <<>>
    /\ NoWindow

\* wl, flux, ivar = read_fits_file(file); an empty table raises inside
\* read_fits_file (np.nanmin), so a loaded LAMOST spectrum has a sample
ReadLamost ==
    /\ pc = "start" /\ source_type = "LAMOST"
    /\ \E L \in 1 .. MaxSamples : \E d \in [1 .. L -> LamostSamples] :
         /\ wl' = WlGrid(L)
         /\ flux' = [i \in 1 .. L |-> d[i][1]]
         /\ ivar' = [i \in 1 .. L |-> d[i][2]]
    /\ calls' = Append(calls, "read_fits_file")
    /\ pc' = "mask"
    /\ UNCHANGED <<widget_vars, caller, source_type, params, m, wl_r, flux_r, ivar_r, sg,
                   flux_smooth, flux_enhanced, cont, flux_plot, report, disk,
                   fnarg, ret>>

\* wl, flux = load_spectrum_universal(file); ivar = np.ones_like(flux) * 100.0;
\* wl_r, flux_r, ivar_r = wl, flux, ivar   (no mask, no rebinning)
ReadUniversal ==
    /\ pc = "start" /\ source_type = "UNIVERSAL"
    /\ \E L \in 0 .. MaxSamples : \E f \in [1 .. L -> UniversalFlux] :
         /\ wl' = WlGrid(L) /\ wl_r' = WlGrid(L)
         /\ flux' = f /\ flux_r' = f
         /\ ivar' = Full(L, Num(100)) /\ ivar_r' = Full(L, Num(100))
    /\ calls' = Append(calls, "load_spectrum_universal")
    /\ pc' = "smooth"
    /\ UNCHANGED <<widget_vars, caller, source_type, params, m, sg, flux_smooth,
                   flux_enhanced, cont, flux_plot, report, disk, fnarg, ret>>

\* the loader raises (LAMOST) or returns (None, None) (UNIVERSAL)
ReadFails ==
    /\ pc = "start"
    /\ calls' = Append(calls, IF source_type = "LAMOST" THEN "read_fits_file"
                              ELSE "load_spectrum_universal")
    /\ pc' = "error"
    /\ UNCHANGED <<widget_vars, caller, source_type, params, wl, flux, ivar, m, wl_r, flux_r,
                   ivar_r, sg, flux_smooth, flux_enhanced, cont, flux_plot,
                   report, disk, fnarg, ret>>

\* m = valid_mask(flux, ivar); wl, flux, ivar = wl[m], flux[m], ivar[m]
Mask ==
    /\ pc = "mask"
    /\ m' = valid_mask(flux, ivar)
    /\ wl' = Select(wl, valid_mask(flux, ivar))
    /\ flux' = Select(flux, valid_mask(flux, ivar))
    /\ ivar' = Select(ivar, valid_mask(flux, ivar))
    /\ calls' = Append(calls, "valid_mask")
    /\ pc' = "rebin"
    /\ UNCHANGED <<widget_vars, caller, source_type, params, wl_r, flux_r, ivar_r, sg,
                   flux_smooth, flux_enhanced, cont, flux_plot, report, disk,
                   fnarg, ret>>

\* wl_r, flux_r, ivar_r = rebin_spectrum(...); if len(flux_r) == 0: return
Rebin ==
    /\ pc = "rebin"
    /\ LET r == rebin_spectrum(wl, flux, ivar, params.REBIN_FACTOR)
       IN  /\ wl_r' = r.wl_r /\ flux_r' = r.flux_r /\ ivar_r' = r.ivar_r
           /\ pc' = IF r.raised \/ empty_after_rebin(caller, r.flux_r)
                    THEN "error" ELSE "smooth"
    /\ calls' = Append(calls, "rebin_spectrum")
    /\ UNCHANGED <<widget_vars, caller, source_type, params, wl, flux, ivar, m, sg,
                   flux_smooth, flux_enhanced, cont, flux_plot, report, disk,
                   fnarg, ret>>

\* flux_smooth = try_savgol(flux_r, window=current_sg_window, ...)
Smooth ==
    /\ pc = "smooth"
    /\ \E even_ok \in BOOLEAN, nan_raises \in BOOLEAN :
         LET r == try_savgol(flux_r, current_sg_window(caller, params, Len(flux_r)),
                             params.SG_POLY, params.MOVING_AVG_WINDOW,
                             even_ok, nan_raises)
         IN  /\ sg' = [path |-> r.path, shrunk |-> r.shrunk, window |-> r.window,
                      kernel |-> r.kernel]
             /\ flux_smooth' = r.out
             /\ pc' = IF r.raised THEN "error" ELSE "enhance"
    /\ calls' = Append(calls, "try_savgol")
    /\ UNCHANGED <<widget_vars, caller, source_type, params, wl, flux, ivar, m, wl_r, flux_r,
                   ivar_r, flux_enhanced, cont, flux_plot, report, disk, fnarg, ret>>

\* flux_enhanced = enhance_line_detection(flux_smooth, enhancement_factor=1.3)
Enhance ==
    /\ pc = "enhance"
    /\ LET r == enhance_line_detection(flux_smooth, EnhExp)
       IN  /\ flux_enhanced' = r.out
           /\ pc' = IF r.raised THEN "error" ELSE "continuum"
    /\ calls' = Append(calls, "enhance_line_detection")
    /\ UNCHANGED <<widget_vars, caller, source_type, params, wl, flux, ivar, m, wl_r, flux_r,
                   ivar_r, sg, flux_smooth, cont, flux_plot, report, disk, fnarg, ret>>

\* if params["DO_CONTINUUM_NORM"]: cont = running_percentile(...);
\* cont = np.where(...); flux_plot = flux_enhanced / cont
\* else: flux_plot = flux_enhanced
Continuum ==
    /\ pc = "continuum"
    /\ IF params.DO_CONTINUUM_NORM
       THEN LET c == substitute_continuum(
                        running_percentile(flux_enhanced, params.CONTINUUM_WINDOW,
                                           params.CONTINUUM_PERCENTILE))
            IN  /\ cont' = c
                /\ flux_plot' = [i \in Idx(flux_enhanced) |-> FDiv(flux_enhanced[i], c[i])]
                /\ calls' = Append(calls, "running_percentile")
       ELSE /\ flux_plot' = flux_enhanced
            /\ UNCHANGED <<cont, calls>>
    /\ pc' = "report"
    /\ UNCHANGED <<widget_vars, caller, source_type, params, wl, flux, ivar, m, wl_r, flux_r,
                   ivar_r, sg, flux_smooth, flux_enhanced, report, disk, fnarg, ret>>

\* what the caller does with the report r or with the exception: an
\* exception leaves the old report in place
ReportReturns(r) ==
    /\ report' = IF r.raised THEN report ELSE r.report
    /\ pc' = IF r.raised THEN "error" ELSE "output"

\* report = generate_spectral_report(wl_r, flux_plot, ivar_r, ...)
\* (self.report in the GUI)
Report ==
    /\ pc = "report"
    /\ \E even_avg \in BOOLEAN :
         ReportReturns(generate_spectral_report(wl_r, flux_plot, ivar_r, SPECTRAL_LINES,
                                                params.REDSHIFT_SIGMA_CLIP, even_avg))
    /\ calls' = Append(calls, "generate_spectral_report")
    /\ UNCHANGED <<widget_vars, caller, source_type, params, wl, flux, ivar, m, wl_r, flux_r,
                   ivar_r, sg, flux_smooth, flux_enhanced, cont, flux_plot, disk,
                   fnarg, ret>>

\* printing, plotting and saving.  src/main.py writes the JSON and the CSV and
\* then plots; src/src/main.py plots first; the GUI writes nothing.  Whether
\* the plot raises depends on the data and on matplotlib.
Output ==
    /\ pc = "output"
    /\ \E plot_ok \in BOOLEAN :
         /\ pc' = IF plot_ok THEN "done" ELSE "error"
         /\ disk' = IF caller = "gui" THEN disk
                    ELSE IF plot_ok THEN OutputFiles
                    ELSE IF caller = "cli_main"
                         THEN {"spectral_analysis_report.json", "processed_spectrum.csv"}
                    ELSE disk
    /\ UNCHANGED <<widget_vars, caller, source_type, params, wl, flux, ivar, m, wl_r, flux_r,
                   ivar_r, sg, flux_smooth, flux_enhanced, cont, flux_plot,
                   report, calls, fnarg, ret>>

NextPipeline ==
    \/ ReadLamost \/ ReadUniversal \/ ReadFails
    \/ Mask \/ Rebin \/ Smooth \/ Enhance \/ Continuum \/ Report \/ Output

SpecPipeline == InitPipeline /\ [][NextPipeline]_vars

Called(f) == f \in Range(calls)
MaskLeftNothing == Called("valid_mask") /\ Len(flux) = 0
RebinLeftNothing == Called("rebin_spectrum") /\ Len(flux_r) = 0

\* C4: in every caller, once the validity mask or the rebinning has left zero
\* samples the analysis ends in the error outcome, try_savgol and
\* generate_spectral_report are never invoked, nothing is written to disk and
\* the report stored before (the GUI's) stays as it was.
C4_EmptySpectrumAborts ==
    /\ []((MaskLeftNothing \/ RebinLeftNothing) =>
            /\ pc \in {"rebin", "error"}
            /\ (RebinLeftNothing => pc = "error")
            /\ ~Called("try_savgol")
            /\ ~Called("generate_spectral_report")
            /\ disk = {})
    /\ [][(MaskLeftNothing \/ RebinLeftNothing)' => report' = report]_vars

\* the GUI aborted on a spectrum that rebinning emptied, a report being stored
C4_Witness ==
    /\ pc = "error" /\ caller = "gui"
    /\ RebinLeftNothing /\ Len(flux) > 0
    /\ report = StoredReport

\* C5: on every path (LAMOST and UNIVERSAL, in all three callers) the validity
\* mask is computed and applied before smoothing, so no sample with
\* non-finite flux reaches try_savgol.
C5_MaskBeforeSmoothing ==
    Called("try_savgol") =>
        /\ Called("valid_mask")
        /\ \A i \in Idx(flux_r) : isfinite(flux_r[i])

-----------------------------------------------------------------------------
(* measure_line_parameters applied to absorption dips and to short arrays *)

\* a dip on the flat level c: minimum c - a at sample p, rising linearly to c
\* over k further samples on each side
DipFlux(L, p, k, c, a) ==
    [i \in 1 .. L |->
        IF Abs(i - p) > k THEN Num(c)
        ELSE FSub(Num(c), Rat(a * (k + 1 - Abs(i - p)), k + 1))]

DipLevel == 4
DipAmplitudes == {1, DipLevel, DipLevel + 2}
LineWindows == {Num(WlStep), Num(2 * WlStep), Num(10)}

InitLine ==
    /\ pc = "input"
    /\ \E L \in 0 .. MaxLineLen :
         /\ wl_r = WlGrid(L)
         /\ \/ \E p \in 1 .. L, k \in 0 .. MaxDipHalf, a \in DipAmplitudes,
                  w \in LineWindows :
                    /\ flux_plot = DipFlux(L, p, k, DipLevel, a)
                    /\ fnarg = [line_center |-> wl_r[p], window |-> w]
            \/ /\ L <= MaxMaskLen
               /\ flux_plot \in [1 .. L -> {Num(1), Num(2), NaN}]
               /\ fnarg \in [line_center : {Num(WlStart + WlStep), Num(WlStart - 20)},
                             window : LineWindows]
    /\ wl = <<>> /\ flux = <<>> /\ ivar = <<>> /\ m = <<>>
    /\ flux_r = <<>> /\ ivar_r = <<>>
    /\ sg = NoSg /\ flux_smooth = <<>> /\ flux_enhanced = <<>> /\ cont = <<>>
    /\ NoCaller

\* ret = measure_line_parameters(wl_r, flux_plot, line_center, window)
CallMeasureLine ==
    /\ pc = "input"
    /\ \E even_avg \in BOOLEAN :
         ret' = measure_line_parameters(wl_r, flux_plot, fnarg.line_center,
                                        fnarg.window, even_avg)
    /\ pc' = "measured"
    /\ UNCHANGED <<widget_vars, caller, source_type, params, wl, flux, ivar, m, wl_r, flux_r,
                   ivar_r, sg, flux_smooth, flux_enhanced, cont, flux_plot,
                   report, disk, calls, fnarg>>

NextLine == CallMeasureLine

SpecLine == InitLine /\ [][NextLine]_vars

\* the samples of the window, the sample at the line centre, the flat level
InWindow ==
    {i \in Idx(wl_r) : /\ FLe(FSub(fnarg.line_center, fnarg.window), wl_r[i])
                       /\ FLe(wl_r[i], FAdd(fnarg.line_center, fnarg.window))}
WinLo == CHOOSE i \in InWindow : \A j \in InWindow : i <= j
WinHi == CHOOSE i \in InWindow : \A j \in InWindow : i >= j
Centre == CHOOSE i \in InWindow : wl_r[i] = fnarg.line_center
FlatLevel == flux_plot[WinLo]
HalfMax == FDiv(FAdd(FlatLevel, flux_plot[Centre]), Num(2))

\* a single symmetric dip with its minimum at the line centre, on a flat
\* positive level, lying wholly inside the window
SymmetricDip ==
    /\ InWindow # {}
    /\ \E i \in InWindow : wl_r[i] = fnarg.line_center
    /\ \A i \in InWindow : isfinite(flux_plot[i])
    /\ FGt(FlatLevel, Num(0))
    /\ flux_plot[WinHi] = FlatLevel
    /\ FLt(flux_plot[Centre], FlatLevel)
    /\ Centre - WinLo = WinHi - Centre
    /\ \A i \in InWindow :
         /\ flux_plot[i] = flux_plot[2 * Centre - i]
         /\ FLe(flux_plot[i], FlatLevel)
         /\ i # Centre => FLt(flux_plot[Centre], flux_plot[i])
         /\ (i < Centre /\ i > WinLo) => FLe(flux_plot[i], flux_plot[i - 1])

\* the first five and the last five samples of the window are mostly on the
\* flat level
EdgesMostlyFlat ==
    /\ 2 * Cardinality({i \in InWindow : i < WinLo + 5 /\ flux_plot[i] = FlatLevel})
         > Cardinality({i \in InWindow : i < WinLo + 5})
    /\ 2 * Cardinality({i \in InWindow : i > WinHi - 5 /\ flux_plot[i] = FlatLevel})
         > Cardinality({i \in InWindow : i > WinHi - 5})

\* samples beside the minimum, on each side, at or below the half-maximum level
HalfWidthSamples ==
    Cardinality({i \in InWindow : i < Centre /\ FLe(flux_plot[i], HalfMax)})

\* C11: for a symmetric dip with samples at or below the half-maximum level on
\* both sides of the minimum (and a window wide enough for the continuum to be
\* the flat level), the reported FWHM is the wavelength distance
\* between the nearest such sample left of the minimum and the nearest such
\* sample right of the minimum, and is not the distance from the left sample
\* to the minimum itself.
C11_FwhmBetweenHalfMaxSamples ==
    (pc = "measured" /\ SymmetricDip /\ EdgesMostlyFlat /\ HalfWidthSamples >= 1) =>
        /\ ret.fwhm = fwhm_right_of_minimum(wl_r, flux_plot, Centre, HalfMax)
        /\ ret.fwhm # FSub(wl_r[Centre], wl_r[Centre - 1])

LineRecovered ==
    /\ ret.observed_center = fnarg.line_center
    /\ ret.continuum_level = FlatLevel
    /\ ret.depth = FSub(Num(1), FDiv(flux_plot[Centre], FlatLevel))
    /\ FGt(ret.depth, Num(0)) /\ FLe(ret.depth, Num(1))
    /\ FGt(ret.equivalent_width, Num(0))

\* C12 as stated: for a single symmetric dip with its minimum at lambda0 on a
\* flat positive continuum, wholly inside the window, observed_center is
\* lambda0, continuum_level is the flat level, depth = 1 - min_flux/continuum
\* lies in (0, 1] and equivalent_width is strictly positive.
C12_Original ==
    (pc = "measured" /\ SymmetricDip) => LineRecovered

\* C12, amended: the same, for a dip whose minimum flux is not negative and
\* that leaves most of the first five and most of the last five samples of
\* the window on the flat level (on a uniformly spaced wavelength grid).
C12_DipRecovered ==
    (pc = "measured" /\ SymmetricDip /\ EdgesMostlyFlat
        /\ FLe(Num(0), flux_plot[Centre])) => LineRecovered

\* a dip of five samples measured in a window of more than five samples
C12_Witness ==
    /\ pc = "measured" /\ SymmetricDip /\ EdgesMostlyFlat
    /\ FLe(Num(0), flux_plot[Centre])
    /\ Cardinality({i \in InWindow : flux_plot[i] # FlatLevel}) = 5
    /\ ret.continuum_level = FlatLevel

-----------------------------------------------------------------------------
(* robust_redshift_calculation applied to arbitrary redshift lists *)

\* the list of spec section 8: three consistent lines and an outlier
ExampleRedshifts == <<Rat(1, 1000), Rat(3, 2500), Rat(9, 10000), Rat(1, 20)>>
RedshiftValues == {Num(0), Rat(1, 1000), Rat(1, 500), NaN}
SigmaClips == {Num(-1), Num(1), Rat(3, 2), Num(2), Num(3)}

InitRedshift ==
    /\ pc = "input"
    /\ \E z \in Arrays(RedshiftValues, MaxRedshifts) \cup {ExampleRedshifts},
          c \in SigmaClips :
         fnarg = [redshifts |-> z, sigma_clip |-> c]
    /\ wl = <<>> /\ flux = <<>> /\ ivar = <<>> /\ m = <<>>
    /\ wl_r = <<>> /\ flux_r = <<>> /\ ivar_r = <<>>
    /\ sg = NoSg /\ flux_smooth = <<>> /\ flux_enhanced = <<>> /\ cont = <<>>
    /\ flux_plot = <<>>
    /\ NoCaller

\* ret = robust_redshift_calculation(redshifts, sigma_clip)
CallRobustRedshift ==
    /\ pc = "input"
    /\ ret' = robust_redshift_calculation(fnarg.redshifts, fnarg.sigma_clip)
    /\ pc' = "clipped"
    /\ UNCHANGED <<widget_vars, caller, source_type, params, wl, flux, ivar, m, wl_r, flux_r,
                   ivar_r, sg, flux_smooth, flux_enhanced, cont, flux_plot,
                   report, disk, calls, fnarg>>

NextRedshift == CallRobustRedshift

SpecRedshift == InitRedshift /\ [][NextRedshift]_vars

\* distance of the i-th redshift from the median, the clipping threshold, and
\* the positions the clipping retains
Deviation(i) == FAbs(FSub(fnarg.redshifts[i], np_median(fnarg.redshifts)))
Threshold == FMul(fnarg.sigma_clip, median_abs_deviation(fnarg.redshifts))
RetainedIdx == {i \in Idx(fnarg.redshifts) : FLt(Deviation(i), Threshold)}
Retained == Select(fnarg.redshifts, [i \in Idx(fnarg.redshifts) |-> i \in RetainedIdx])

\* C14: the clipping retains exactly the values with |z - median| <
\* sigma_clip * MAD, a value exactly at the threshold being excluded; when a
\* value is retained the result is the mean, the standard deviation and the
\* count of the retained values; for [0.001, 0.0012, 0.0009, 0.05] and
\* sigma_clip = 2 the value 0.05 is excluded and the count is 3.
C14_StrictSigmaClip ==
    (pc = "clipped" /\ RetainedIdx # {}) =>
        /\ \A i \in Idx(fnarg.redshifts) : Deviation(i) = Threshold => i \notin RetainedIdx
        /\ ret.n = Cardinality(RetainedIdx)
        /\ ret.value = FDiv(FSum(Retained), Num(Cardinality(RetainedIdx)))
        /\ ret.error = np_std(Retained)
        /\ (fnarg.redshifts = ExampleRedshifts /\ fnarg.sigma_clip = Num(2)) =>
              /\ ret.n = 3
              /\ RetainedIdx = {1, 2, 3}

\* the list of spec section 8 was clipped at 2 MAD
C14_Witness ==
    /\ pc = "clipped"
    /\ fnarg.redshifts = ExampleRedshifts /\ fnarg.sigma_clip = Num(2)
    /\ ret.n = 3

\* C15: when the clipping retains no value of a non-empty list, the result is
\* the median, the MAD and the size of the whole list, so the count is the
\* total and never 0.
C15_AllClippedFallback ==
    (pc = "clipped" /\ Len(fnarg.redshifts) >= 1 /\ RetainedIdx = {}) =>
        /\ ret.value = np_median(fnarg.redshifts)
        /\ ret.error = median_abs_deviation(fnarg.redshifts)
        /\ ret.n = Len(fnarg.redshifts)
        /\ ret.n # 0

\* two different redshifts, both exactly at the threshold, were both clipped
C15_Witness ==
    /\ pc = "clipped" /\ Len(fnarg.redshifts) = 2 /\ RetainedIdx = {}
    /\ fnarg.redshifts[1] # fnarg.redshifts[2]
    /\ isfinite(ret.value) /\ ret.n = 2

-----------------------------------------------------------------------------
(* calculate_snr applied to arbitrary flux arrays and windows *)

SnrFlux == {Num(-2), Num(1), Num(2), NaN}
SnrWindows == {1, 2, 3}

InitSnr ==
    /\ pc = "input"
    /\ flux_plot \in Arrays(SnrFlux, MaxSnrLen)
    /\ \E w \in SnrWindows : fnarg = [window |-> w]
    /\ wl = <<>> /\ flux = <<>> /\ ivar = <<>> /\ m = <<>>
    /\ wl_r = <<>> /\ flux_r = <<>> /\ ivar_r = <<>>
    /\ sg = NoSg /\ flux_smooth = <<>> /\ flux_enhanced = <<>> /\ cont = <<>>
    /\ NoCaller

\* ret = calculate_snr(flux, window)
CallCalculateSnr ==
    /\ pc = "input"
    /\ ret' = calculate_snr(flux_plot, fnarg.window)
    /\ pc' = "snr"
    /\ UNCHANGED <<widget_vars, caller, source_type, params, wl, flux, ivar, m, wl_r, flux_r,
                   ivar_r, sg, flux_smooth, flux_enhanced, cont, flux_plot,
                   report, disk, calls, fnarg>>

NextSnr == CallCalculateSnr

SpecSnr == InitSnr /\ [][NextSnr]_vars

\* the i-th full segment, and the full segments whose noise is positive:
\* those without NaN whose samples are not all equal
Segment(i) == SubSeq(flux_plot, (i - 1) * fnarg.window + 1, i * fnarg.window)
FullSegments == 1 .. (Len(flux_plot) \div fnarg.window)
Qualifying == {i \in FullSegments : ~anynan(Segment(i)) /\ ~IsConstant(Segment(i))}
\* median / std of a segment of two samples a, b is (a + b) / |a - b|
PairRatio(a, b) ==
    LET q == FDiv(FAdd(a, b), FAbs(FSub(a, b)))
        sq == FMul(q, q)
    IN  [k |-> "sqrt", n |-> Sign(q.n) * sq.n, d |-> sq.d]
\* r is a median of the ratios of the qualifying segments
IsMedianOfQualifying(r) ==
    LET val(x) == [k |-> "num", n |-> x.n, d |-> x.d]
        ratio(i) == val(segment_snr(Segment(i)))
        below(x) == Cardinality({i \in Qualifying : FLe(ratio(i), val(x))})
        above(x) == Cardinality({i \in Qualifying : FLe(val(x), ratio(i))})
        half == (Cardinality(Qualifying) + 1) \div 2
    IN  IF r.k = "mean"
        THEN /\ Cardinality(Qualifying) % 2 = 0
             /\ below(r.lo) = half /\ above(r.hi) = half
             /\ FLt(val(r.lo), val(r.hi))
        ELSE /\ r.k = "sqrt"
             /\ \E i \in Qualifying : ratio(i) = val(r)
             /\ 2 * below(r) >= Cardinality(Qualifying)
             /\ 2 * above(r) >= Cardinality(Qualifying)

\* C20: calculate_snr is the median of median/std over exactly the
\* floor(len/window) full segments whose std is positive; segments with zero
\* or NaN noise and the trailing partial segment are skipped; it is 0 when no
\* segment qualifies, in particular when len < window.
C20_SegmentMedian ==
    pc = "snr" =>
        /\ Qualifying = {} => ret = Num(0)
        /\ Len(flux_plot) < fnarg.window => ret = Num(0)
        /\ Qualifying # {} => IsMedianOfQualifying(ret)
        /\ (fnarg.window = 2 /\ Cardinality(Qualifying) = 1) =>
              \E i \in Qualifying : ret = PairRatio(Segment(i)[1], Segment(i)[2])

\* three segments are full, one of them is skipped for its noise, a trailing
\* sample is left over and the two remaining ratios differ
C20_Witness ==
    /\ pc = "snr" /\ fnarg.window = 2 /\ Len(flux_plot) = 5
    /\ Cardinality(Qualifying) = 2
    /\ ret.k = "mean"
    /\ flux_plot[5] # flux_plot[4]

-----------------------------------------------------------------------------
(* find_emission_lines applied to arbitrary flux arrays *)

PeakFlux == {Num(1), Num(2), Num(3), NaN}
HeightThresholds == {Rat(1, 10), Rat(1, 2)}
PeakDistances == {1, 2, 10}

InitEmission ==
    /\ pc = "input"
    /\ \E L \in 0 .. MaxPeakLen :
         /\ wl_r = WlGrid(L)
         /\ flux_plot \in [1 .. L -> PeakFlux]
    /\ \E h \in HeightThresholds, dist \in PeakDistances :
         fnarg = [height_threshold |-> h, distance |-> dist]
    /\ wl = <<>> /\ flux = <<>> /\ ivar = <<>> /\ m = <<>>
    /\ flux_r = <<>> /\ ivar_r = <<>>
    /\ sg = NoSg /\ flux_smooth = <<>> /\ flux_enhanced = <<>> /\ cont = <<>>
    /\ NoCaller

\* ret = find_emission_lines(wavelengths, flux, height_threshold, distance)
CallFindEmissionLines ==
    /\ pc = "input"
    /\ ret' = find_emission_lines(wl_r, flux_plot, fnarg.height_threshold, fnarg.distance)
    /\ pc' = "emission"
    /\ UNCHANGED <<widget_vars, caller, source_type, params, wl, flux, ivar, m, wl_r, flux_r,
                   ivar_r, sg, flux_smooth, flux_enhanced, cont, flux_plot,
                   report, disk, calls, fnarg>>

NextEmission == CallFindEmissionLines

SpecEmission == InitEmission /\ [][NextEmission]_vars

\* the flux is a flat finite baseline except for one higher sample at p
PeakAt(p) ==
    /\ p \in Idx(flux_plot) /\ Len(flux_plot) >= 2
    /\ \A i \in Idx(flux_plot) : isfinite(flux_plot[i])
    /\ \A i, j \in Idx(flux_plot) \ {p} : flux_plot[i] = flux_plot[j]
    /\ \A i \in Idx(flux_plot) \ {p} : FLt(flux_plot[i], flux_plot[p])
Baseline(p) == flux_plot[IF p = 1 THEN 2 ELSE 1]
Amplitude(p) == FSub(flux_plot[p], Baseline(p))
OneLineAt(p) ==
    /\ ~ret.raised
    /\ Len(ret.lines) = 1
    /\ ret.lines[1].wavelength = wl_r[p]

\* C18 as stated: a flat baseline plus a single narrow emission peak yields
\* exactly one line at the wavelength of the peak sample whose strength is the
\* amplitude of the peak above the baseline.
C18_Original ==
    \A p \in 1 .. MaxPeakLen + 1 :
        (pc = "emission" /\ PeakAt(p)) =>
            /\ OneLineAt(p)
            /\ ret.lines[1].strength = Amplitude(p)

\* C18: a flat baseline plus a single one-sample emission peak that is
\* neither the first nor the last sample yields exactly one line, at the
\* wavelength of the peak sample; its strength is the min-max normalised
\* height of the peak, which is 1 whatever the amplitude, and its fwhm is one
\* sample spacing.
C18_SinglePeakDetected ==
    \A p \in 1 .. MaxPeakLen + 1 :
        (pc = "emission" /\ PeakAt(p) /\ 1 < p /\ p < Len(flux_plot)) =>
            /\ OneLineAt(p)
            /\ ret.lines[1].strength = Num(1)
            /\ ret.lines[1].strength = FDiv(Amplitude(p), FSub(np_max(flux_plot), np_min(flux_plot)))
            /\ ret.lines[1].fwhm = FSub(wl_r[2], wl_r[1])

\* a peak of amplitude 2 in the middle of a baseline of 1 was detected
C18_Witness ==
    /\ pc = "emission" /\ PeakAt(3) /\ Len(flux_plot) = 5
    /\ Amplitude(3) = Num(2)
    /\ Len(ret.lines) = 1 /\ ret.lines[1].strength = Num(1)

-----------------------------------------------------------------------------
(* generate_spectral_report applied to short spectra and small dictionaries
   of reference lines *)

\* a grid of 5 A steps, so that a window of +/- 10 A holds up to five samples
ReportGrid(L) == [i \in 1 .. L |-> Num(100 + 5 * i)]
ReportFlux == {Num(1), Num(2), NaN}
\* reference lines on the grid, and one whose window holds no sample
ReportLines ==
    <<[name |-> Hbeta, rest_wl |-> Num(110)],
      [name |-> "B", rest_wl |-> Num(115)],
      [name |-> "C", rest_wl |-> Num(120)],
      [name |-> "far", rest_wl |-> Num(200)]>>
ReportSigmaClips == {Num(1), Num(2)}
\* the dictionaries handed over, as the positions taken from ReportLines
ReportDicts == {{}, {4}, {1}, {1, 2}, {1, 4}, {2, 3, 4}, {1, 2, 3}, {1, 2, 3, 4}}

InitReport ==
    /\ pc = "input"
    /\ \E L \in 0 .. MaxReportLen :
         /\ wl_r = ReportGrid(L)
         /\ flux_plot \in [1 .. L -> ReportFlux]
         /\ ivar_r = Full(L, Num(100))
    /\ \E chosen \in ReportDicts, c \in ReportSigmaClips :
         fnarg = [lines_dict |-> Select(ReportLines, [i \in Idx(ReportLines) |-> i \in chosen]),
                  redshift_sigma_clip |-> c]
    /\ wl = <<>> /\ flux = <<>> /\ ivar = <<>> /\ m = <<>>
    /\ flux_r = <<>>
    /\ sg = NoSg /\ flux_smooth = <<>> /\ flux_enhanced = <<>> /\ cont = <<>>
    /\ NoCaller

\* ret = generate_spectral_report(wl, flux, ivar, lines_dict, redshift_sigma_clip)
CallGenerateReport ==
    /\ pc = "input"
    /\ \E even_avg \in BOOLEAN :
         ret' = generate_spectral_report(wl_r, flux_plot, ivar_r, fnarg.lines_dict,
                                         fnarg.redshift_sigma_clip, even_avg)
    /\ pc' = "reported"
    /\ UNCHANGED <<widget_vars, caller, source_type, params, wl, flux, ivar, m, wl_r, flux_r,
                   ivar_r, sg, flux_smooth, flux_enhanced, cont, flux_plot,
                   report, disk, calls, fnarg>>

NextReport == CallGenerateReport

SpecReport == InitReport /\ [][NextReport]_vars

\* the window of the i-th reference line holds a sample
HasSample(i) ==
    \E j \in Idx(wl_r) :
        /\ FLe(FSub(fnarg.lines_dict[i].rest_wl, Num(10)), wl_r[j])
        /\ FLe(wl_r[j], FAdd(fnarg.lines_dict[i].rest_wl, Num(10)))
Measurable == {i \in Idx(fnarg.lines_dict) : HasSample(i)}
Reported == pc = "reported" /\ ~ret.raised
\* the redshifts of the reported lines, in the order of the dictionary
LineRedshifts ==
    LET names == Select(fnarg.lines_dict,
                        [i \in Idx(fnarg.lines_dict) |->
                            fnarg.lines_dict[i].name \in DOMAIN ret.report.absorption_lines])
    IN  [i \in Idx(names) |-> ret.report.absorption_lines[names[i].name].redshift]
\* the sigma clipping retains none of the per-line redshifts
NothingRetained ==
    \A i \in Idx(LineRedshifts) :
        ~FLt(FAbs(FSub(LineRedshifts[i], np_median(LineRedshifts))),
             FMul(fnarg.redshift_sigma_clip, median_abs_deviation(LineRedshifts)))

\* C13: a reference line whose window rest_wavelength +/- 10 holds no sample
\* is measured as None, is absent from absorption_lines and contributes no
\* redshift; every line in absorption_lines carries a redshift, and
\* n_lines_total is the number of entries of absorption_lines.
C13_UnmeasuredLinesAbsent ==
    Reported =>
        /\ \A i \in Idx(fnarg.lines_dict) \ Measurable :
              /\ \A even_avg \in BOOLEAN :
                    measure_line_parameters(wl_r, flux_plot, fnarg.lines_dict[i].rest_wl,
                                            Num(10), even_avg) = None
              /\ fnarg.lines_dict[i].name \notin DOMAIN ret.report.absorption_lines
        /\ DOMAIN ret.report.absorption_lines = {fnarg.lines_dict[i].name : i \in Measurable}
        /\ \A name \in DOMAIN ret.report.absorption_lines :
              /\ "redshift" \in DOMAIN ret.report.absorption_lines[name]
              /\ \E i \in Measurable :
                    /\ fnarg.lines_dict[i].name = name
                    /\ ret.report.absorption_lines[name].redshift =
                          FDiv(FSub(ret.report.absorption_lines[name].observed_center,
                                    fnarg.lines_dict[i].rest_wl),
                               fnarg.lines_dict[i].rest_wl)
        /\ "redshift" \in DOMAIN ret.report =>
              ret.report.redshift.n_lines_total = Cardinality(DOMAIN ret.report.absorption_lines)

\* two lines were measured and one line of the dictionary had an empty window
C13_Witness ==
    /\ Reported
    /\ Cardinality(Measurable) = 2
    /\ Len(fnarg.lines_dict) = 3
    /\ ret.report.redshift.n_lines_total = 2

\* C16: in every report with a redshift entry 1 <= n_lines_used <=
\* n_lines_total; when the clipping retains no line the two are equal.
C16_LinesUsedInRange ==
    (Reported /\ "redshift" \in DOMAIN ret.report) =>
        /\ 1 <= ret.report.redshift.n_lines_used
        /\ ret.report.redshift.n_lines_used <= ret.report.redshift.n_lines_total
        /\ NothingRetained =>
              ret.report.redshift.n_lines_used = ret.report.redshift.n_lines_total

\* one of three measured lines was clipped
C16_Witness ==
    /\ Reported /\ "redshift" \in DOMAIN ret.report
    /\ ret.report.redshift.n_lines_total = 3
    /\ ret.report.redshift.n_lines_used = 2

\* C17: the report holds 'redshift' exactly when it holds 'radial_velocity'
\* and exactly when a reference line was measured; when no line is
\* measurable the report of a non-empty spectrum is still returned, without
\* the two keys and with wavelength_range, snr, an empty absorption_lines,
\* emission_lines, mg_fe_ratio and metallicity_estimate; the radial velocity
\* is the redshift times 299792.458.
C17_RedshiftIffLineMeasured ==
    (pc = "reported" /\ Len(wl_r) >= 1) =>
        /\ Measurable = {} => ~ret.raised
        /\ ~ret.raised =>
              /\ "redshift" \in DOMAIN ret.report <=> "radial_velocity" \in DOMAIN ret.report
              /\ "redshift" \in DOMAIN ret.report <=> Measurable # {}
              /\ {"wavelength_range", "snr", "absorption_lines", "emission_lines",
                  "mg_fe_ratio", "metallicity_estimate"} \subseteq DOMAIN ret.report
              /\ Measurable = {} => DOMAIN ret.report.absorption_lines = {}
              /\ "redshift" \in DOMAIN ret.report =>
                    /\ ret.report.radial_velocity.value = times_c(ret.report.redshift.value)
                    /\ ret.report.radial_velocity.error = times_c(ret.report.redshift.error)

-----------------------------------------------------------------------------
(* the callers on a flat LAMOST spectrum that is long enough for
   calculate_snr to find a full segment after the rebinning *)

\* samples in the file: at least REBIN_FACTOR * SnrDefaultWindow, and few
\* enough for the grid to end below the first reference line
FlatLengths == {400, 404, 420}
FlatLevels == {Num(1), Num(2)}

InitFlat ==
    /\ pc = "start"
    /\ caller \in Callers
    /\ source_type = "LAMOST"
    /\ \E w \in SgLongWindows, norm \in BOOLEAN :
         /\ params = [DEFAULT_PARAMS EXCEPT !.SG_WINDOW = w, !.DO_CONTINUUM_NORM = norm]
         /\ caller # "gui" => params = DEFAULT_PARAMS
    /\ report = None
    /\ wl = <<>> /\ flux = <<>> /\ ivar = <<>> /\ m = <<>>
    /\ wl_r = <<>> /\ flux_r = <<>> /\ ivar_r = <<>>
    /\ sg = NoSg /\ flux_smooth = <<>> /\ flux_enhanced = <<>> /\ cont = <<>>
    /\ flux_plot = <<>> /\ fnarg = NoArg /\ ret = None
    /\ disk = {} /\ calls = <<>>
    /\ NoWindow

\* wl, flux, ivar = read_fits_file(file) on a file with flux = level and
\* ivar = 100 at every sample
ReadFlat ==
    /\ pc = "start"
    /\ \E L \in FlatLengths, level \in FlatLevels :
         /\ wl' = WlGrid(L)
         /\ flux' = Full(L, level)
         /\ ivar' = Full(L, Num(100))
    /\ calls' = Append(calls, "read_fits_file")
    /\ pc' = "mask"
    /\ UNCHANGED <<widget_vars, caller, source_type, params, m, wl_r, flux_r, ivar_r, sg,
                   flux_smooth, flux_enhanced, cont, flux_plot, report, disk,
                   fnarg, ret>>

NextFlat ==
    \/ ReadFlat
    \/ Mask
    \/ Rebin
    \/ Smooth
    \/ Enhance
    \/ Continuum
    \/ Report
    \/ Output

SpecFlat == InitFlat /\ [][NextFlat]_vars

\* flux = 1 and ivar = 100 everywhere, rebinned by 4, smoothed by the
\* Savitzky-Golay filter, enhanced, not continuum-normalised, and reported
FlatScenario ==
    /\ pc = "output"
    /\ params.REBIN_FACTOR = 4 /\ ~params.DO_CONTINUUM_NORM
    /\ flux = Full(Len(flux), Num(1)) /\ ivar = Full(Len(ivar), Num(100))
    /\ Len(flux_r) >= SnrDefaultWindow
    /\ sg.path = "savgol"
    /\ Called("enhance_line_detection")

\* C19: in the flat scenario the reported SNR is finite and strictly
\* positive (not 0, not NaN) and the list of emission lines is empty.
C19_FlatSpectrumSnr ==
    FlatScenario =>
        /\ report.snr.k \in {"sqrt", "mean"}
        /\ report.snr.k = "sqrt" => report.snr.n > 0
        /\ report.snr.k = "mean" => (report.snr.lo.n > 0 /\ report.snr.hi.n > 0)
        /\ report.emission_lines = <<>>

-----------------------------------------------------------------------------
(* the undefined FWHM of measure_line_parameters *)

\* the sample the measurement took as the minimum, and the half-maximum level
MinIdx == CHOOSE i \in InWindow : wl_r[i] = ret.observed_center
HalfLevel == FDiv(FAdd(ret.continuum_level, flux_plot[MinIdx]), Num(2))
\* the samples of the window left and right of the minimum that are at or
\* below the half-maximum level
LeftBelow == {i \in InWindow : i < MinIdx /\ FLe(flux_plot[i], HalfLevel)}
RightBelow == {i \in InWindow : i > MinIdx /\ FLe(flux_plot[i], HalfLevel)}
LineFields == {"observed_center", "equivalent_width", "fwhm", "depth", "continuum_level"}

\* C24: measure_line_parameters returns fwhm = NaN exactly when no sample left
\* of the minimum is at or below the half-maximum level or no sample right of
\* the minimum is; observed_center, equivalent_width, depth and
\* continuum_level are returned in that case too, and the redshift of the
\* line is defined.
C24_FwhmUndefined ==
    (pc = "measured" /\ ret # None) =>
        /\ DOMAIN ret = LineFields
        /\ isfinite(calculate_redshift(ret.observed_center, fnarg.line_center))
        /\ isnan(ret.fwhm) <=> (LeftBelow = {} \/ RightBelow = {})

-----------------------------------------------------------------------------
(* the report of a non-empty spectrum *)

RequiredKeys ==
    {"wavelength_range", "snr", "absorption_lines", "emission_lines",
     "mg_fe_ratio", "metallicity_estimate"}
OptionalKeys ==
    {"redshift", "radial_velocity", "temperature_estimate", "temperature_value"}

\* C21: for every spectrum of at least one sample and every dictionary of
\* reference lines generate_spectral_report returns a report instead of
\* raising; the report holds wavelength_range, snr, absorption_lines,
\* emission_lines, mg_fe_ratio and metallicity_estimate, and no key other
\* than these and redshift, radial_velocity, temperature_estimate and
\* temperature_value.
C21_ReportNeverRaises ==
    (pc = "reported" /\ Len(wl_r) >= 1) =>
        /\ ~ret.raised
        /\ RequiredKeys \subseteq DOMAIN ret.report
        /\ DOMAIN ret.report \subseteq RequiredKeys \cup OptionalKeys

-----------------------------------------------------------------------------
(* the size of the redshifts *)

\* the rest wavelength of a reported line, the reported lines, and the
\* largest redshift a window of +/- 10 allows for a line
RestOf(name) ==
    fnarg.lines_dict[CHOOSE i \in Idx(fnarg.lines_dict) : fnarg.lines_dict[i].name = name].rest_wl
ReportedLines == DOMAIN ret.report.absorption_lines
WindowBound(name) == FDiv(Num(LineDefaultWindow), RestOf(name))

\* C25: every reported observed_center lies inside
\* [rest_wavelength - 10, rest_wavelength + 10], every per-line redshift has
\* |z| <= 10 / rest_wavelength, and the magnitude of the reported redshift
\* value is at most the largest 10 / rest_wavelength of the measured lines.
C25_RedshiftBounded ==
    Reported =>
        /\ \A name \in ReportedLines :
              LET line == ret.report.absorption_lines[name]
              IN  /\ FLe(FSub(RestOf(name), Num(LineDefaultWindow)), line.observed_center)
                  /\ FLe(line.observed_center, FAdd(RestOf(name), Num(LineDefaultWindow)))
                  /\ FLe(FAbs(line.redshift), WindowBound(name))
        /\ "redshift" \in DOMAIN ret.report =>
              \E name \in ReportedLines :
                  FLe(FAbs(ret.report.redshift.value), WindowBound(name))

\* a line was observed at the blue edge of its window and the reported
\* redshift is that of the edge
C25_Witness ==
    /\ Reported /\ "redshift" \in DOMAIN ret.report
    /\ \E name \in ReportedLines :
          /\ ret.report.absorption_lines[name].observed_center
                = FSub(RestOf(name), Num(LineDefaultWindow))
          /\ FAbs(ret.report.redshift.value) = WindowBound(name)

-----------------------------------------------------------------------------
(* the fallback of robust_redshift_calculation *)

IsZero(x) == x.k = "num" /\ x.n = 0
Mad == median_abs_deviation(fnarg.redshifts)
\* a call on a non-empty list of finite redshifts with sigma_clip > 1
ClipAboveOne ==
    /\ pc = "clipped" /\ Len(fnarg.redshifts) >= 1
    /\ \A i \in Idx(fnarg.redshifts) : isfinite(fnarg.redshifts[i])
    /\ FGt(fnarg.sigma_clip, Num(1))
\* the number of redshifts equal to v
Copies(v) == Cardinality({i \in Idx(fnarg.redshifts) : fnarg.redshifts[i] = v})

-----------------------------------------------------------------------------
(* generate_spectral_report on spectra that reach the Mg and Fe windows *)

\* grids with samples in neither, one or both of 5175 +/- 20 and 5270 +/- 20
MetalGrids ==
    {<<Num(5100), Num(5110)>>,
     <<Num(5100), Num(5175)>>,
     <<Num(5100), Num(5270)>>,
     <<Num(5175), Num(5270)>>,
     <<Num(5100), Num(5175), Num(5270)>>,
     <<Num(5170), Num(5180), Num(5270), Num(5280)>>}
\* flux levels whose ratios fall below, between, on and above 0.9 and 1.1
MetalFlux == {Num(0), Num(9), Num(10), Num(11), NaN}

InitMetal ==
    /\ pc = "input"
    /\ wl_r \in MetalGrids
    /\ flux_plot \in [1 .. Len(wl_r) -> MetalFlux]
    /\ ivar_r = Full(Len(wl_r), Num(100))
    /\ \E d \in {<<>>, SPECTRAL_LINES} :
         fnarg = [lines_dict |-> d, redshift_sigma_clip |-> REDSHIFT_SIGMA_CLIP]
    /\ wl = <<>> /\ flux = <<>> /\ ivar = <<>> /\ m = <<>>
    /\ flux_r = <<>>
    /\ sg = NoSg /\ flux_smooth = <<>> /\ flux_enhanced = <<>> /\ cont = <<>>
    /\ NoCaller

SpecMetal == InitMetal /\ [][NextReport]_vars

\* the samples of the Mg window and of the Fe window
MgWindow == {i \in Idx(wl_r) : FLe(Num(5155), wl_r[i]) /\ FLe(wl_r[i], Num(5195))}
FeWindow == {i \in Idx(wl_r) : FLe(Num(5250), wl_r[i]) /\ FLe(wl_r[i], Num(5290))}
Buckets == {"Baja metalicidad", "Metalicidad solar", "Alta metalicidad"}

\* C27: metallicity_estimate is always exactly one of the three buckets: low
\* when the ratio is below 0.9, else solar when it is below 1.1, else high; in
\* particular when the Mg window or the Fe window holds no sample the ratio
\* is NaN and metallicity_estimate is present and is the high bucket.
C27_MetallicityBucket ==
    Reported =>
        /\ "metallicity_estimate" \in DOMAIN ret.report
        /\ ret.report.metallicity_estimate \in Buckets
        /\ ret.report.metallicity_estimate = "Baja metalicidad"
              <=> FLt(ret.report.mg_fe_ratio, Rat(9, 10))
        /\ ret.report.metallicity_estimate = "Metalicidad solar"
              <=> /\ FLe(Rat(9, 10), ret.report.mg_fe_ratio)
                  /\ FLt(ret.report.mg_fe_ratio, Rat(11, 10))
        /\ (MgWindow = {} \/ FeWindow = {}) =>
              /\ isnan(ret.report.mg_fe_ratio)
              /\ ret.report.metallicity_estimate = "Alta metalicidad"
        /\ (MgWindow # {} /\ FeWindow # {}) =>
              ret.report.mg_fe_ratio =
                  FDiv(np_mean(Select(flux_plot, [i \in Idx(wl_r) |-> i \in MgWindow])),
                       np_mean(Select(flux_plot, [i \in Idx(wl_r) |-> i \in FeWindow])))

\* a report of a spectrum with samples in the Mg window and none in the Fe
\* window
C27_Witness ==
    /\ Reported /\ MgWindow # {} /\ FeWindow = {}
    /\ \A i \in MgWindow : isfinite(flux_plot[i])
    /\ isnan(ret.report.mg_fe_ratio)
    /\ ret.report.metallicity_estimate = "Alta metalicidad"


-----------------------------------------------------------------------------
(* gui.py: FileExplorerWidget *)

MaxOps == 4          \* most navigation operations in one session

\* the directories of the file system, the parent of each (QDir.cdUp fails
\* at the root), QDir.homePath(), and the files the tree view shows
Dirs == {"/", "/home", "/home/user", "/data"}
ParentDir(d) ==
    CASE d = "/home/user" -> "/home"
      [] d = "/home" -> "/"
      [] d = "/data" -> "/"
      [] OTHER -> d
HomePath == "/home/user"
FitsFiles == {"/data/a.fits", "/home/user/b.fits"}
\* os.path.dirname of a file
DirName(f) == IF f = "/data/a.fits" THEN "/data" ELSE "/home/user"

\* a variant that leaves the forward entries in place
add_to_history_keep_forward(h, idx, path) ==
    IF idx < Len(h) - 1 THEN [history |-> h, history_index |-> idx]
    ELSE [history |-> Append(h, path), history_index |-> Len(h)]

\* add_to_history(path), lines 1027-1030; history_index counts from 0
add_to_history(h, idx, path) ==
    LET kept == IF idx < Len(h) - 1 THEN Take(h, idx + 1) ELSE h
    IN  [history |-> Append(kept, path), history_index |-> Len(kept)]

\* update_navigation_buttons
update_navigation_buttons(h, idx) ==
    [btn_back |-> idx > 0, btn_forward |-> idx < Len(h) - 1]

\* set_path(path) with the history h and the index idx: the root of the tree
\* view, the history and the buttons
set_path(h, idx, path) ==
    /\ current_path' = path
    /\ history' = add_to_history(h, idx, path).history
    /\ history_index' = add_to_history(h, idx, path).history_index
    /\ btn_back' = update_navigation_buttons(add_to_history(h, idx, path).history,
                       add_to_history(h, idx, path).history_index).btn_back
    /\ btn_forward' = update_navigation_buttons(add_to_history(h, idx, path).history,
                          add_to_history(h, idx, path).history_index).btn_forward

\* the explorer as __init__ leaves it in the directory cwd: the tree view
\* shows cwd and add_to_history(QDir.currentPath()) has run
ExplorerOpens(cwd) ==
    /\ current_path = cwd
    /\ history = add_to_history(<<>>, -1, cwd).history
    /\ history_index = add_to_history(<<>>, -1, cwd).history_index
    /\ btn_back = update_navigation_buttons(history, history_index).btn_back
    /\ btn_forward = update_navigation_buttons(history, history_index).btn_forward

InitExplorer ==
    /\ pc = "explorer"
    /\ \E cwd \in Dirs : ExplorerOpens(cwd)
    /\ file_path = NoFile /\ btn_save = FALSE /\ saved = None /\ runs = <<>>
    /\ caller = "gui" /\ source_type = "LAMOST" /\ params = DEFAULT_PARAMS
    /\ report = None /\ disk = {} /\ calls = <<>> /\ ret = None /\ fnarg = NoArg
    /\ wl = <<>> /\ flux = <<>> /\ ivar = <<>> /\ m = <<>>
    /\ wl_r = <<>> /\ flux_r = <<>> /\ ivar_r = <<>>
    /\ sg = NoSg /\ flux_smooth = <<>> /\ flux_enhanced = <<>> /\ cont = <<>>
    /\ flux_plot = <<>>

\* what every operation of the explorer leaves alone
ExplorerFrame ==
    UNCHANGED <<pc, caller, source_type, params, wl, flux, ivar, m, wl_r, flux_r, ivar_r,
                sg, flux_smooth, flux_enhanced, cont, flux_plot, report, disk, fnarg, ret,
                btn_save, saved, runs>>

\* the operation op completes
Completes(op) ==
    /\ pc = "explorer"
    /\ Len(calls) < MaxOps
    /\ calls' = Append(calls, op)

\* on_path_edited: the text of the path edit is an existing directory, an
\* existing file (its directory is shown) or no path at all (a warning)
PathEdited ==
    /\ Completes("on_path_edited")
    /\ \/ \E d \in Dirs : set_path(history, history_index, d)
       \/ \E f \in FitsFiles : set_path(history, history_index, DirName(f))
       \/ UNCHANGED <<history, history_index, current_path, btn_back, btn_forward>>
    /\ UNCHANGED file_path
    /\ ExplorerFrame

\* on_file_double_clicked on a directory below the one shown
DirectoryDoubleClicked ==
    /\ Completes("on_file_double_clicked")
    /\ \E d \in Dirs : /\ d # current_path /\ ParentDir(d) = current_path
                       /\ set_path(history, history_index, d)
    /\ UNCHANGED file_path
    /\ ExplorerFrame

\* on_file_double_clicked on a spectrum: self.parent.load_fits_file(path)
FileDoubleClicked ==
    /\ Completes("on_file_double_clicked")
    /\ \E f \in FitsFiles : DirName(f) = current_path /\ file_path' = f
    /\ UNCHANGED <<history, history_index, current_path, btn_back, btn_forward>>
    /\ ExplorerFrame

\* go_back: history_index -= 1, set_path(history[history_index]),
\* update_navigation_buttons
GoBack ==
    /\ Completes("go_back")
    /\ IF history_index > 0
       THEN set_path(history, history_index - 1, history[history_index])
       ELSE UNCHANGED <<history, history_index, current_path, btn_back, btn_forward>>
    /\ UNCHANGED file_path
    /\ ExplorerFrame

\* go_forward: history_index += 1, set_path(history[history_index]),
\* update_navigation_buttons
GoForward ==
    /\ Completes("go_forward")
    /\ IF history_index < Len(history) - 1
       THEN set_path(history, history_index + 1, history[history_index + 2])
       ELSE UNCHANGED <<history, history_index, current_path, btn_back, btn_forward>>
    /\ UNCHANGED file_path
    /\ ExplorerFrame

\* go_up: set_path(parent) unless cdUp fails
GoUp ==
    /\ Completes("go_up")
    /\ IF ParentDir(current_path) # current_path
       THEN set_path(history, history_index, ParentDir(current_path))
       ELSE UNCHANGED <<history, history_index, current_path, btn_back, btn_forward>>
    /\ UNCHANGED file_path
    /\ ExplorerFrame

\* go_home: set_path(QDir.homePath())
GoHome ==
    /\ Completes("go_home")
    /\ set_path(history, history_index, HomePath)
    /\ UNCHANGED file_path
    /\ ExplorerFrame

NextExplorer ==
    \/ PathEdited \/ DirectoryDoubleClicked \/ FileDoubleClicked
    \/ GoBack \/ GoForward \/ GoUp \/ GoHome

SpecExplorer == InitExplorer /\ [][NextExplorer]_vars

\* the operation completed last
LastOp == IF calls = <<>> THEN "none" ELSE calls[Len(calls)]

\* the state of the history after every completed operation
HistoryAtEnd ==
    /\ history # <<>>
    /\ history_index = Len(history) - 1
    /\ ~btn_forward
    /\ current_path = history[Len(history)]

\* go_forward changes nothing
ForwardChangesNothing ==
    LastOp' = "go_forward" /\ Len(calls') > Len(calls) =>
        UNCHANGED <<current_path, history, history_index, btn_back, btn_forward>>

\* go_back from the index i > 0 keeps the entries up to position i - 1 and
\* appends the entry at position i - 1 once more; at the index 0 it changes
\* nothing
BackAppendsDuplicate ==
    LastOp' = "go_back" /\ Len(calls') > Len(calls) =>
        IF history_index > 0
        THEN /\ history' = Append(Take(history, history_index), history[history_index])
             /\ current_path' = history[history_index]
             /\ Len(history') = Len(history)
        ELSE UNCHANGED <<current_path, history, history_index>>

\* C29: after every completed navigation operation the history is non-empty
\* and history_index is len(history) - 1, so the forward button is never
\* enabled and go_forward never changes the path; go_back from an index i > 0
\* truncates the history after position i - 1 and appends a duplicate of the
\* target path.
C29_HistoryIndexAtEnd ==
    /\ [](pc = "explorer" => HistoryAtEnd)
    /\ [][pc = "explorer" => ForwardChangesNothing /\ BackAppendsDuplicate]_vars

\* go_back has completed from the index 2: the path left is gone from the
\* history and the target is in it twice
C29_Witness ==
    /\ pc = "explorer"
    /\ LastOp = "go_back"
    /\ Len(history) = 3
    /\ history[3] = history[2]
    /\ history[1] # history[2]
    /\ current_path = history[2]

-----------------------------------------------------------------------------
(* gui.py: MainWindow *)

MaxRuns == 2         \* most analyses in one session
\* samples of the long spectrum after rebinning by REBIN_FACTOR: one more than
\* a segment of calculate_snr
RampLen == SnrDefaultWindow + 1

\* what read_fits_file returns for the files of the session, None when it
\* raises: a long spectrum that rises by one unit every REBIN_FACTOR samples,
\* a short one around H-beta, a short one below every reference line, one that
\* leaves a single sample after rebinning, one whose pixels are all bad and
\* one that is no FITS file
FileContents(name) ==
    CASE name = "ramp.fits" ->
            [wl |-> WlGrid(REBIN_FACTOR * RampLen),
             flux |-> [i \in 1 .. REBIN_FACTOR * RampLen |->
                          Num((i + REBIN_FACTOR - 1) \div REBIN_FACTOR)],
             ivar |-> Full(REBIN_FACTOR * RampLen, Num(1))]
      [] name = "hbeta.fits" ->
            [wl |-> [i \in 1 .. 12 |-> Num(4854 + i)],
             flux |-> <<Num(4), Num(4), Num(4), Num(4), Num(2), Num(2), Num(2), Num(2),
                        Num(4), Num(4), Num(4), Num(4)>>,
             ivar |-> Full(12, Num(1))]
      [] name = "step.fits" ->
            [wl |-> WlGrid(12),
             flux |-> <<Num(1), Num(1), Num(1), Num(1), Num(2), Num(2), Num(2), Num(2),
                        Num(2), Num(2), Num(2), Num(2)>>,
             ivar |-> Full(12, Num(1))]
      [] name = "short.fits" ->
            [wl |-> WlGrid(5), flux |-> Full(5, Num(1)), ivar |-> Full(5, Num(1))]
      [] name = "masked.fits" ->
            [wl |-> WlGrid(8), flux |-> Full(8, NaN), ivar |-> Full(8, Num(0))]
      [] OTHER -> None

\* what one run of analyze leaves behind: the arrays in self.wl, self.flux and
\* self.ivar, how far the run got ("failed": an exception, "aborted": the
\* return after the rebinning, "reported": generate_spectral_report returned),
\* and the report
analyze_outcome(status, w, f, iv, rep) ==
    [status |-> status, wl |-> w, flux |-> f, ivar |-> iv, report |-> rep]

\* line 1696, the assignment of what generate_spectral_report returned
analyze_reported(w, f, iv, r) ==
    IF r.raised THEN analyze_outcome("failed", w, f, iv, None)
    ELSE analyze_outcome("reported", w, f, iv, r.report)

\* the report r with the SNR replaced
report_with_snr(w, f, iv, r, snr) ==
    IF r.raised THEN analyze_outcome("failed", w, f, iv, None)
    ELSE analyze_outcome("reported", w, f, iv, [r.report EXCEPT !.snr = snr])

\* a variant that measures the SNR with the configured window
analyze_report_snr_window(w, f, iv, w_r, f_plot, iv_r, p, env) ==
    report_with_snr(w, f, iv,
        generate_spectral_report(w_r, f_plot, iv_r, SPECTRAL_LINES,
                                 p.REDSHIFT_SIGMA_CLIP, env.even_avg),
        calculate_snr(f_plot, p.SNR_WINDOW))

\* line 1696: generate_spectral_report(wl_r, flux_plot, ivar_r, lines_dict,
\* redshift_sigma_clip=params["REDSHIFT_SIGMA_CLIP"])
analyze_report(w, f, iv, w_r, f_plot, iv_r, p, env) ==
    analyze_reported(w, f, iv,
        generate_spectral_report(w_r, f_plot, iv_r, SPECTRAL_LINES,
                                 p.REDSHIFT_SIGMA_CLIP, env.even_avg))

\* line 1692: flux_plot = flux_enhanced / cont
analyze_normalised(w, f, iv, w_r, f_enh, c, iv_r, p, env) ==
    analyze_report(w, f, iv, w_r, np_array([i \in Idx(f_enh) |-> FDiv(f_enh[i], c[i])]),
                   iv_r, p, env)

\* lines 1689-1694
analyze_continuum(w, f, iv, w_r, f_enh, iv_r, p, env) ==
    IF p.DO_CONTINUUM_NORM
    THEN analyze_normalised(w, f, iv, w_r, f_enh,
             np_array(substitute_continuum(
                          running_percentile(f_enh, p.CONTINUUM_WINDOW,
                                             p.CONTINUUM_PERCENTILE))),
             iv_r, p, env)
    ELSE analyze_report(w, f, iv, w_r, f_enh, iv_r, p, env)

\* line 1687: flux_enhanced = enhance_line_detection(flux_smooth, 1.3)
analyze_enhanced(w, f, iv, w_r, e, iv_r, p, env) ==
    IF e.raised THEN analyze_outcome("failed", w, f, iv, None)
    ELSE analyze_continuum(w, f, iv, w_r, np_array(e.out), iv_r, p, env)

\* line 1686: flux_smooth = try_savgol(flux_r, window=current_sg_window, ...)
analyze_smoothed(w, f, iv, w_r, s, iv_r, p, env) ==
    IF s.raised THEN analyze_outcome("failed", w, f, iv, None)
    ELSE analyze_enhanced(w, f, iv, w_r, enhance_line_detection(np_array(s.out), EnhExp),
                          iv_r, p, env)

\* lines 1658-1686 (LAMOST): the guard after the rebinning and the window
analyze_rebinned(w, f, iv, r, p, env) ==
    IF r.raised THEN analyze_outcome("failed", w, f, iv, None)
    ELSE IF empty_after_rebin("gui", r.flux_r) THEN analyze_outcome("aborted", w, f, iv, None)
    ELSE analyze_smoothed(w, f, iv, np_array(r.wl_r),
             try_savgol(np_array(r.flux_r), current_sg_window("gui", p, Len(r.flux_r)),
                        p.SG_POLY, p.MOVING_AVG_WINDOW, env.even_ok, env.nan_raises),
             np_array(r.ivar_r), p, env)

\* lines 1655-1658: self.wl, self.flux, self.ivar = self.wl[m], ...
analyze_masked(w, f, iv, p, env) ==
    analyze_rebinned(w, f, iv, rebin_spectrum(w, f, iv, p.REBIN_FACTOR), p, env)

\* lines 1651-1655: m = valid_mask(self.flux, self.ivar)
analyze_loaded(w, f, iv, mask, p, env) ==
    analyze_masked(Select(w, mask), Select(f, mask), Select(iv, mask), p, env)

\* MainWindow.analyze in the LAMOST mode on the file whose contents are c,
\* from the arrays w, f, iv of the run before
analyze(c, w, f, iv, p, env) ==
    IF c = None THEN analyze_outcome("failed", w, f, iv, None)
    ELSE analyze_loaded(c.wl, c.flux, c.ivar, valid_mask(c.flux, c.ivar), p, env)

\* the session: MainWindow.__init__ (lines 1294-1300, 1490) with the files the
\* user can open, the choices of the parameter panel that are used and what
\* the installed libraries do
WindowOpens(files, options, env) ==
    /\ pc = "window" /\ caller = "gui" /\ source_type = "LAMOST"
    /\ fnarg = [files |-> files, options |-> options, env |-> env]
    /\ file_path = NoFile /\ report = None /\ btn_save = FALSE
    /\ saved = None /\ runs = <<>>
    /\ ExplorerOpens(HomePath)
    /\ disk = {} /\ calls = <<>> /\ ret = None
    /\ wl = <<>> /\ flux = <<>> /\ ivar = <<>> /\ m = <<>>
    /\ wl_r = <<>> /\ flux_r = <<>> /\ ivar_r = <<>>
    /\ sg = NoSg /\ flux_smooth = <<>> /\ flux_enhanced = <<>> /\ cont = <<>>
    /\ flux_plot = <<>>

\* what no handler of the window assigns
WindowFrame ==
    UNCHANGED <<pc, caller, source_type, m, wl_r, flux_r, ivar_r, sg, flux_smooth,
                flux_enhanced, cont, flux_plot, disk, calls, fnarg, ret,
                history, history_index, current_path, btn_back, btn_forward>>

\* load_fits_file(file_path), from open_file or from a double click in the
\* explorer
LoadFitsFile ==
    /\ pc = "window"
    /\ \E f \in fnarg.files : file_path' = f
    /\ UNCHANGED <<params, wl, flux, ivar, report, btn_save, saved, runs>>
    /\ WindowFrame

\* ParametersPanel.on_parameter_changed: one combo box gets another value
OnParameterChanged ==
    /\ pc = "window"
    /\ \E o \in fnarg.options : params' = [params EXCEPT ![o.name] = o.value]
    /\ UNCHANGED <<file_path, wl, flux, ivar, report, btn_save, saved, runs>>
    /\ WindowFrame

\* a variant in which a run that fails or is aborted clears the old report
\* and disables the button
AnalyzeReturns_clearing(out) ==
    \E shown \in BOOLEAN :
        /\ wl' = out.wl /\ flux' = out.flux /\ ivar' = out.ivar
        /\ report' = IF out.status = "reported" /\ shown THEN out.report ELSE None
        /\ btn_save' = (out.status = "reported" /\ shown)
        /\ runs' = Append(runs, [file_path |-> file_path, params |-> params,
                                 status |-> IF out.status = "reported" /\ ~shown
                                            THEN "failed" ELSE out.status,
                                 report |-> out.report])

\* the end of analyze: self.wl, self.flux, self.ivar as the run left them and
\* self.report assigned at line 1696 when generate_spectral_report returned;
\* display_results and plot_spectrum (lines 1697-1698) then either complete,
\* and line 1701 enables the button, or raise into the except clause of line
\* 1703 (the installed matplotlib decides, for one: legend(labelcolor=...)
\* is a TypeError in old releases).  The run is recorded with the way it ended
\* and with what generate_spectral_report returned.
AnalyzeReturns(out) ==
    \E shown \in BOOLEAN :
        /\ wl' = out.wl /\ flux' = out.flux /\ ivar' = out.ivar
        /\ report' = IF out.status = "reported" THEN out.report ELSE report
        /\ btn_save' = IF out.status = "reported" /\ shown THEN TRUE ELSE btn_save
        /\ runs' = Append(runs, [file_path |-> file_path, params |-> params,
                                 status |-> IF out.status = "reported" /\ ~shown
                                            THEN "failed" ELSE out.status,
                                 report |-> out.report])

\* MainWindow.analyze with a file loaded (without one: a warning and nothing
\* else)
Analyze ==
    /\ pc = "window"
    /\ file_path # NoFile
    /\ Len(runs) < MaxRuns
    /\ AnalyzeReturns(analyze(FileContents(file_path), wl, flux, ivar, params, fnarg.env))
    /\ UNCHANGED <<file_path, params, saved>>
    /\ WindowFrame

\* what save_results writes: the name of the loaded file, the mode and the
\* values of the report its lines are formatted from
written(path, mode, rep) ==
    [archivo |-> path, modo |-> mode,
     wavelength_range |-> [min |-> rep.wavelength_range.min,
                           max |-> rep.wavelength_range.max],
     snr |-> rep.snr,
     redshift |-> IF "redshift" \in DOMAIN rep THEN rep.redshift ELSE None,
     radial_velocity |-> IF "redshift" \in DOMAIN rep THEN rep.radial_velocity ELSE None]

\* MainWindow.save_results (button or Ctrl+S) with a report; the dialog may
\* be cancelled and the file may fail to open
SaveResults ==
    /\ pc = "window"
    /\ report # None
    /\ \/ saved' = written(file_path, source_type, report)
       \/ UNCHANGED saved
    /\ UNCHANGED <<file_path, params, wl, flux, ivar, report, btn_save, runs>>
    /\ WindowFrame

\* what the installed scipy does with an even window, with non-finite data
\* and in simpson
Envs == [even_ok : BOOLEAN, nan_raises : BOOLEAN, even_avg : BOOLEAN]

-----------------------------------------------------------------------------
(* Sessions that differ in SNR_WINDOW *)

\* values of the SNR_WINDOW combo box (param_options, gui.py:1120): the
\* smallest, which is the default of calculate_snr, and the default of the
\* configuration
SnrWindowChoices == {100, SNR_WINDOW}

\* a session with a long and a short spectrum in which the SNR_WINDOW combo
\* box is the only one touched
InitParams ==
    /\ \E env \in Envs :
          WindowOpens({"ramp.fits", "hbeta.fits"},
                      {[name |-> "SNR_WINDOW", value |-> v] : v \in SnrWindowChoices}, env)
    /\ params = DEFAULT_PARAMS

NextParams == LoadFitsFile \/ OnParameterChanged \/ Analyze

SpecParams == InitParams /\ [][NextParams]_vars

\* the parameter dictionaries p and q differ in SNR_WINDOW at most
SameButSnrWindow(p, q) == [p EXCEPT !.SNR_WINDOW = q.SNR_WINDOW] = q

\* C28: two runs of the analysis on the same file whose parameters differ only
\* in SNR_WINDOW get the same report from generate_spectral_report, field by
\* field, the snr included (or both get none)
C28_SnrWindowIgnored ==
    \A i \in Idx(runs), j \in Idx(runs) :
        (runs[i].file_path = runs[j].file_path
            /\ SameButSnrWindow(runs[i].params, runs[j].params))
        => runs[i].report = runs[j].report

\* two analyses of the long spectrum, one with a window that gives one
\* segment and one with a window longer than the spectrum, both with an SNR
\* that is not 0
C28_Witness ==
    /\ Len(runs) = 2
    /\ runs[1].file_path = "ramp.fits" /\ runs[2].file_path = "ramp.fits"
    /\ runs[1].params.SNR_WINDOW = 100
    /\ runs[2].params.SNR_WINDOW > RampLen
    /\ runs[1].status = "reported" /\ runs[2].status = "reported"
    /\ runs[2].report.snr # Num(0)
    /\ runs[2].report = report

-----------------------------------------------------------------------------
(* Sessions with several files *)

\* a spectrum around H-beta, one below every reference line, one that leaves
\* a single sample after the rebinning (generate_spectral_report raises), one
\* whose pixels are all bad (the return after the rebinning) and a file that
\* read_fits_file cannot read
SessionFiles == {"hbeta.fits", "step.fits", "short.fits", "masked.fits", "broken.fits"}

InitSession ==
    /\ \E env \in Envs :
          WindowOpens(SessionFiles,
                      {[name |-> "DO_CONTINUUM_NORM", value |-> v] : v \in BOOLEAN}, env)
    /\ params = DEFAULT_PARAMS

NextSession == LoadFitsFile \/ OnParameterChanged \/ Analyze \/ SaveResults

SpecSession == InitSession /\ [][NextSession]_vars

\* the runs in which line 1696 assigned self.report
AssignedRuns == {i \in Idx(runs) : runs[i].report # None}

\* the report of the last run in which line 1696 was reached, None before the
\* first
LastReport ==
    IF AssignedRuns = {} THEN None
    ELSE runs[CHOOSE i \in AssignedRuns : \A j \in AssignedRuns : j <= i].report

\* this step is a run of analyze that fails or is aborted
AnalyzeFails ==
    /\ Len(runs') = Len(runs) + 1
    /\ runs'[Len(runs')].status # "reported"

\* this step is a run of analyze that ends before line 1696
AnalyzeFailsEarly ==
    /\ AnalyzeFails
    /\ runs'[Len(runs')].report = None

\* this step is a run of analyze that fails after line 1696
AnalyzeFailsLate ==
    /\ AnalyzeFails
    /\ runs'[Len(runs')].report # None

\* load_fits_file changes neither the report nor the button, the button is
\* never disabled once enabled, and save_results writes the report of the
\* last run that assigned one under the name of the file loaded now
StaleReportSaved ==
    /\ [][file_path' # file_path => report' = report /\ btn_save' = btn_save]_vars
    /\ [][btn_save => btn_save']_vars
    /\ [](pc = "window" => (report = LastReport /\ (btn_save => report # None)))
    /\ [][saved' # saved => saved' = written(file_path, source_type, LastReport)]_vars

\* C30 as stated: besides, every analysis that fails or is aborted leaves
\* self.report and the state of the save button unchanged
C30_Original ==
    /\ StaleReportSaved
    /\ [][AnalyzeFails => report' = report /\ btn_save' = btn_save]_vars

\* C30: load_fits_file changes neither self.report nor the enabled state of
\* the save button; an analysis that fails or is aborted before
\* generate_spectral_report has returned changes neither; one that fails after
\* it (in display_results or plot_spectrum) leaves the button as it was but
\* replaces self.report by the new report; the button is never disabled once
\* enabled; save_results writes the report of the last analysis that assigned
\* one under the name of the file loaded now
C30_StaleReportSaved ==
    /\ StaleReportSaved
    /\ [][AnalyzeFailsEarly => report' = report /\ btn_save' = btn_save]_vars
    /\ [][AnalyzeFailsLate =>
            report' = runs'[Len(runs')].report /\ btn_save' = btn_save]_vars

\* the spectrum around H-beta was analysed, the unreadable file was loaded and
\* its analysis failed; the save button is enabled and save_results has
\* written the report of the first file under the name of the second
C30_Witness ==
    /\ Len(runs) = 2
    /\ runs[1].file_path = "hbeta.fits" /\ runs[1].status = "reported"
    /\ runs[2].file_path = "broken.fits" /\ runs[2].status = "failed"
    /\ file_path = "broken.fits"
    /\ btn_save
    /\ report = runs[1].report
    /\ saved = written("broken.fits", "LAMOST", runs[1].report)

=========================================================================
